---------------------------- MODULE Spec2Model ----------------------------
(***************************************************************************)
(* Model of the dota2-leaderboard web client.                              *)
(*                                                                         *)
(* Timeline (src/web/js/stats.js, lines 480-808) is a singleton object     *)
(* whose handlers run to completion on the browser's single event loop;    *)
(* every handler is therefore one atomic action.  The browser's timer      *)
(* table (setInterval / setTimeout / clearInterval) is modelled by the     *)
(* set `timers`; a live timer may fire at any moment.  The period of a     *)
(* timer (1000 / speed ms) decides when it fires, never what its callback  *)
(* does, so it is not recorded.                                            *)
(*                                                                         *)
(* Indices are 0-based as in the source; the k-th snapshot of a TLA+       *)
(* sequence is read with At(snaps, i) == snaps[i + 1].                     *)
(*                                                                         *)
(* The module holds eight specifications over one set of variables:        *)
(*   Spec      the Timeline player under every call of its handlers;       *)
(*   SpecFair  the same with a caller that may fall silent and timers      *)
(*             that keep firing;                                           *)
(*   SpecStats the extraction script writing a history file and one call   *)
(*             of a Stats function on it;                                  *)
(*   SpecApp   App loading and switching datasets, with the player modal   *)
(*             and the favorites.                                          *)
(*   SpecLeaderboard  the leaderboard table under its renders and the      *)
(*             teams-only toggle;                                          *)
(*   SpecExtract  one run of the extraction script's sampling and loop;    *)
(*   SpecRenderStats  App.renderStats on long leaderboards;                *)
(*   SpecFavorites  the Favorites module with its store and callbacks.     *)
(* A specification leaves the variables of the others as Init sets them.   *)
(***************************************************************************)
EXTENDS Integers, Sequences, FiniteSets, TLC

(***************************************************************************)
(* Bounds of the model.                                                    *)
(***************************************************************************)
\* longest snapshot sequence a dataset holds
MaxSnapshots == 3
\* largest number of timers alive in the browser at one time
MaxTimers == 2
\* largest number of region switches in one visit of the page
MaxSwitches == 2
\* commits of one region's leaderboard file in the git log
MaxCommits == 5
\* values of CONFIG.MAX_SNAPSHOTS the extraction script is run with
MaxSampled == 3
\* callbacks registered with Favorites.onChange
MaxCallbacks == 2
\* renders of the leaderboard table in one behaviour
MaxRenders == 2
\* the players p1 .. of the long leaderboards App.renderStats is run on
LongCount == 8
\* entries the player modal pushes on the browser's history stack
MaxShows == 2

(***************************************************************************)
(* Values of the program.                                                  *)
(***************************************************************************)
\* playInterval: null (a timer handle is a positive integer, null is falsy)
NULL == 0
\* the `null` passed as previousSnapshot
NoSnapshot == <<>>
\* onSnapshotChange: null
NoCallback == "null"
\* the closure App passes to Timeline.init
RenderCallback == "render"
\* data-speed of the speed buttons (1x, 2x, 5x)
Speeds == {1, 2, 5}
\* the regions whose history files the page can load
Regions == {"europe", "americas"}

\* the snapshot sequence of a dataset: snapshot k of region r is <<r, k>>
MkSnapshots(r, n) == [k \in 1..n |-> <<r, k>>]

\* every snapshot sequence Timeline.init can be given (loadData rejects
\* an empty one)
SnapshotSeqs == {MkSnapshots(r, n) : r \in Regions, n \in 1..MaxSnapshots}

\* snapshots[i], 0-based
At(snaps, i) == snaps[i + 1]

(***************************************************************************)
(* Stats (src/web/js/stats.js, lines 209-471) and the extraction script    *)
(* that writes the history files it reads (src/unnamed/part_002).          *)
(*                                                                         *)
(* An optional JavaScript value is a tuple: Absent for null / undefined,   *)
(* Str(s) for the string s.  Time is counted in days.  An object used as   *)
(* a map (the player history) is the sequence of its values in insertion   *)
(* order, which is the order Object.entries gives for keys that are not    *)
(* array indices (every id holds a "|").                                   *)
(***************************************************************************)
Absent == <<>>
Str(s) == <<s>>
\* a reference to an object or an array (null is Absent)
Obj(v) == <<v>>

\* JavaScript truthiness of an optional string
Truthy(v) == v # Absent /\ v # Str("")

\* v || d, for a string default d
OrElse(v, d) == IF Truthy(v) THEN v[1] ELSE d

\* v || null
OrNull(v) == IF Truthy(v) THEN v ELSE Absent

\* the names on the leaderboard
Names == {"a", "b", "c"}

\* a record of the upstream leaderboard file
RawPlayer(rank, name, tag, team, country) ==
  [id |-> Absent, rank |-> rank, name |-> name, team_tag |-> tag,
   team_id |-> team, country |-> country]

\* the object getLeaderboardAtCommit maps a leaderboard record to
ExtractPlayer(p) ==
  [id |-> Str(p.name \o "|" \o OrElse(p.country, "")),
   rank |-> p.rank,
   name |-> p.name,
   team_tag |-> OrNull(p.team_tag),
   team_id |-> OrNull(p.team_id),
   country |-> OrNull(p.country)]

\* getPlayerId with the team tag in the id
getPlayerId_withTeam(player) ==
  OrElse(player.id, player.name \o "|" \o OrElse(player.team_tag, "")
                                \o "|" \o OrElse(player.country, ""))

\* Stats.getPlayerId
getPlayerId(player) ==
  OrElse(player.id, player.name \o "|" \o OrElse(player.country, ""))

\* filterSnapshotsByTime that keeps every snapshot
filterSnapshotsByTime_all(snaps, days, now) == snaps

\* filterSnapshotsByTime that drops the snapshot taken exactly at the cutoff
filterSnapshotsByTime_strict(snaps, days, now) ==
  IF days = 0 \/ Len(snaps) = 0 THEN snaps
  ELSE LET cutoff == now - days
       IN SelectSeq(snaps, LAMBDA s : s.timestamp > cutoff)

\* Stats.filterSnapshotsByTime, `now` being the value of new Date()
filterSnapshotsByTime(snaps, days, now) ==
  IF days = 0 \/ Len(snaps) = 0 THEN snaps
  ELSE LET cutoff == now - days
       IN SelectSeq(snaps, LAMBDA s : s.timestamp >= cutoff)

\* the position of history[id], 0 if the map has no such key
Slot(history, id) ==
  IF \E i \in 1..Len(history) : history[i].id = id
    THEN CHOOSE i \in 1..Len(history) : history[i].id = id
    ELSE 0

\* the "update team info to latest" lines, always assigning
updateTeamInfo_always(entry, player) ==
  [entry EXCEPT !.team_tag = player.team_tag, !.country = player.country]

\* the "update team info to latest" lines of buildPlayerHistory
updateTeamInfo(entry, player) ==
  LET e1 == IF Truthy(player.team_tag)
              THEN [entry EXCEPT !.team_tag = player.team_tag] ELSE entry
  IN IF Truthy(player.country)
       THEN [e1 EXCEPT !.country = player.country] ELSE e1

\* the body of the inner loop of buildPlayerHistory
observe(history, timestamp, player) ==
  LET playerId == getPlayerId(player)
      h1 == IF Slot(history, playerId) = 0
              THEN Append(history,
                          [id |-> playerId, name |-> player.name,
                           team_tag |-> player.team_tag,
                           team_id |-> player.team_id,
                           country |-> player.country, ranks |-> <<>>])
              ELSE history
      i == Slot(h1, playerId)
      pushed == [h1[i] EXCEPT !.ranks =
                   Append(@, [timestamp |-> timestamp, rank |-> player.rank])]
  IN [h1 EXCEPT ![i] = updateTeamInfo(pushed, player)]

\* for (const player of snapshot.players), from the k-th player on
RECURSIVE foldPlayers(_, _, _)
foldPlayers(history, snapshot, k) ==
  IF k > Len(snapshot.players) THEN history
  ELSE foldPlayers(observe(history, snapshot.timestamp, snapshot.players[k]),
                   snapshot, k + 1)

\* for (const snapshot of filteredSnapshots), from the k-th snapshot on
RECURSIVE foldSnapshots(_, _, _)
foldSnapshots(history, snaps, k) ==
  IF k > Len(snaps) THEN history
  ELSE foldSnapshots(foldPlayers(history, snaps[k], 1), snaps, k + 1)

\* Stats.buildPlayerHistory
buildPlayerHistory(snaps, timeDays, now) ==
  foldSnapshots(<<>>, filterSnapshotsByTime(snaps, timeDays, now), 1)

\* the entry getWinners / getLosers push for a history entry
Change(data, firstRank, lastRank, change) ==
  [id |-> data.id, name |-> data.name, team_tag |-> data.team_tag,
   country |-> data.country, firstRank |-> firstRank, lastRank |-> lastRank,
   change |-> change]

\* the loop body of getWinners without the scope test
winnerOf_anyScope(data, scope) ==
  LET firstRank == data.ranks[1].rank
      lastRank == data.ranks[Len(data.ranks)].rank
  IN IF Len(data.ranks) < 2 THEN <<>>
     ELSE IF firstRank - lastRank > 0
       THEN <<Change(data, firstRank, lastRank, firstRank - lastRank)>>
       ELSE <<>>

\* the loop body of getWinners: what one history entry adds to `changes`
winnerOf(data, scope) ==
  IF Len(data.ranks) < 2 THEN <<>>
  ELSE LET firstRank == data.ranks[1].rank
           lastRank == data.ranks[Len(data.ranks)].rank
           change == firstRank - lastRank
       IN IF lastRank > scope THEN <<>>
          ELSE IF change > 0
            THEN <<Change(data, firstRank, lastRank, change)>>
            ELSE <<>>

\* the loop body of getLosers with the sign of getWinners' change
loserOf_sameSign(data, scope) ==
  IF Len(data.ranks) < 2 THEN <<>>
  ELSE LET firstRank == data.ranks[1].rank
           lastRank == data.ranks[Len(data.ranks)].rank
           change == firstRank - lastRank
       IN IF lastRank > scope THEN <<>>
          ELSE IF change > 0
            THEN <<Change(data, firstRank, lastRank, change)>>
            ELSE <<>>

\* the loop body of getLosers: what one history entry adds to `changes`
loserOf(data, scope) ==
  IF Len(data.ranks) < 2 THEN <<>>
  ELSE LET firstRank == data.ranks[1].rank
           lastRank == data.ranks[Len(data.ranks)].rank
           change == lastRank - firstRank
       IN IF lastRank > scope THEN <<>>
          ELSE IF change > 0
            THEN <<Change(data, firstRank, lastRank, change)>>
            ELSE <<>>

\* for (const [id, data] of Object.entries(history)) in getWinners: the
\* `changes` array
winnerChanges(history, scope) ==
  LET from[k \in 1..Len(history) + 1] ==
        IF k > Len(history) THEN <<>>
        ELSE winnerOf(history[k], scope) \o from[k + 1]
  IN from[1]

\* for (const [id, data] of Object.entries(history)) in getLosers: the
\* `changes` array
loserChanges(history, scope) ==
  LET from[k \in 1..Len(history) + 1] ==
        IF k > Len(history) THEN <<>>
        ELSE loserOf(history[k], scope) \o from[k + 1]
  IN from[1]

\* e put into the sorted sequence before the entries of equal change
insert_first(sorted, e) ==
  LET before == SelectSeq(sorted, LAMBDA x : x.change > e.change)
      after == SelectSeq(sorted, LAMBDA x : x.change <= e.change)
  IN before \o <<e>> \o after

\* e put into the sorted sequence behind the entries that do not compare
\* after it (b.change - a.change <= 0), as a stable sort places it
insert(sorted, e) ==
  LET before == SelectSeq(sorted, LAMBDA x : x.change >= e.change)
      after == SelectSeq(sorted, LAMBDA x : x.change < e.change)
  IN before \o <<e>> \o after

\* changes.sort((a, b) => b.change - a.change): Array.prototype.sort is
\* stable, so the result is that of an insertion sort
RECURSIVE sortByChange(_, _)
sortByChange(changes, k) ==
  IF k = 0 THEN <<>> ELSE insert(sortByChange(changes, k - 1), changes[k])

\* Array.prototype.slice(0, count), count >= 0
slice(seq, count) ==
  IF count >= Len(seq) THEN seq ELSE SubSeq(seq, 1, count)

\* the history getWinners / getLosers work on; `snapshots` is the array
\* App.renderStats passes (an array is truthy, an empty one too)
activeHistory(playerHistory, timeDays, snaps, now) ==
  IF timeDays > 0
    THEN buildPlayerHistory(snaps, timeDays, now)
    ELSE playerHistory

\* Stats.getWinners
getWinners(playerHistory, count, scope, timeDays, snaps, now) ==
  LET history == activeHistory(playerHistory, timeDays, snaps, now)
      changes == winnerChanges(history, scope)
  IN slice(sortByChange(changes, Len(changes)), count)

\* Stats.getLosers
getLosers(playerHistory, count, scope, timeDays, snaps, now) ==
  LET history == activeHistory(playerHistory, timeDays, snaps, now)
      changes == loserChanges(history, scope)
  IN slice(sortByChange(changes, Len(changes)), count)

\* the names of a snapshot's players: new Set(snapshot.players.map(p => p.name))
playerNames(snapshot) ==
  {snapshot.players[i].name : i \in 1..Len(snapshot.players)}

\* Math.abs
abs(n) == IF n < 0 THEN 0 - n ELSE n

\* the net movement |last rank - first rank|
totalMovementOf_net(ranks) ==
  abs(ranks[Len(ranks)].rank - ranks[1].rank)

\* the inner loop of getGeneralStats: totalMovement of a ranks array
totalMovementOf(ranks) ==
  LET sum[i \in 1..Len(ranks)] ==
        IF i = 1 THEN 0
        ELSE sum[i - 1] + abs(ranks[i].rank - ranks[i - 1].rank)
  IN sum[Len(ranks)]

\* for (const [name, data] of Object.entries(playerHistory)) in
\* getGeneralStats: the `volatility` array; `name` is the key of the entry
volatilityOf(playerHistory) ==
  LET from[k \in 1..Len(playerHistory) + 1] ==
        IF k > Len(playerHistory) THEN <<>>
        ELSE (IF Len(playerHistory[k].ranks) < 2 THEN <<>>
              ELSE <<[name |-> playerHistory[k].id,
                      totalMovement |-> totalMovementOf(playerHistory[k].ranks),
                      team_tag |-> playerHistory[k].team_tag]>>)
             \o from[k + 1]
  IN from[1]

\* volatility.sort((a, b) => b.totalMovement - a.totalMovement), a stable
\* sort: the first k entries sorted
RECURSIVE sortByMovement(_, _)
sortByMovement(volatility, k) ==
  IF k = 0 THEN <<>>
  ELSE LET sorted == sortByMovement(volatility, k - 1)
           e == volatility[k]
       IN SelectSeq(sorted, LAMBDA x : x.totalMovement >= e.totalMovement)
            \o <<e>>
            \o SelectSeq(sorted, LAMBDA x : x.totalMovement < e.totalMovement)

\* Stats.getGeneralStats, for a snapshots array that is not empty
getGeneralStats(snaps, playerHistory) ==
  LET firstSnapshot == snaps[1]
      lastSnapshot == snaps[Len(snaps)]
      firstPlayers == playerNames(firstSnapshot)
      lastPlayers == playerNames(lastSnapshot)
      newEntries == {p \in lastPlayers : p \notin firstPlayers}
      droppedOut == {p \in firstPlayers : p \notin lastPlayers}
      volatility == volatilityOf(playerHistory)
  IN [totalSnapshots |-> Len(snaps),
      newEntries |-> Cardinality(newEntries),
      droppedOut |-> Cardinality(droppedOut),
      mostVolatile |-> slice(sortByMovement(volatility, Len(volatility)), 3),
      dateRange |-> [from |-> firstSnapshot.timestamp,
                     to |-> lastSnapshot.timestamp]]

\* Math.min of the ranks of a ranks array
bestOf(ranks) ==
  CHOOSE r \in {ranks[i].rank : i \in 1..Len(ranks)} :
    \A i \in 1..Len(ranks) : r <= ranks[i].rank

\* the first rank taken for the worst
worstOf_first(ranks) == ranks[1].rank

\* Math.max of the ranks of a ranks array
worstOf(ranks) ==
  CHOOSE r \in {ranks[i].rank : i \in 1..Len(ranks)} :
    \A i \in 1..Len(ranks) : r >= ranks[i].rank

\* Math.round(sum / count) for a positive quotient: halves round up
roundedAverage(ranks) ==
  LET sum[i \in 0..Len(ranks)] ==
        IF i = 0 THEN 0 ELSE sum[i - 1] + ranks[i].rank
  IN (2 * sum[Len(ranks)] + Len(ranks)) \div (2 * Len(ranks))

\* the biggestJump loop of getPlayerStats
biggestJumpOf(ranks) ==
  LET jump[i \in 1..Len(ranks)] ==
        IF i = 1 THEN [change |-> 0, from |-> 0, to |-> 0]
        ELSE IF abs(ranks[i].rank - ranks[i - 1].rank) > abs(jump[i - 1].change)
          THEN [change |-> ranks[i - 1].rank - ranks[i].rank,
                from |-> ranks[i - 1].rank, to |-> ranks[i].rank]
          ELSE jump[i - 1]
  IN jump[Len(ranks)]

\* Stats.getPlayerStats: Absent for null
getPlayerStats(playerHistory, playerId) ==
  IF Slot(playerHistory, playerId) = 0 THEN Absent
  ELSE LET data == playerHistory[Slot(playerHistory, playerId)]
           ranks == [i \in 1..Len(data.ranks) |-> data.ranks[i].rank]
           timestamps == [i \in 1..Len(data.ranks) |-> data.ranks[i].timestamp]
       IN IF Len(data.ranks) = 0 THEN Absent
          ELSE Obj([id |-> playerId, name |-> data.name,
                    team_tag |-> data.team_tag, country |-> data.country,
                    currentRank |-> ranks[Len(ranks)],
                    bestRank |-> bestOf(data.ranks),
                    worstRank |-> worstOf(data.ranks),
                    avgRank |-> roundedAverage(data.ranks),
                    totalChange |-> ranks[1] - ranks[Len(ranks)],
                    biggestJump |-> biggestJumpOf(data.ranks),
                    ranks |-> ranks, timestamps |-> timestamps])

\* a leaderboard on which the players of `names` hold the ranks 1, 2, ...
\* and belong to no team, as the extraction script writes it
Ranking(names) ==
  [k \in 1..Len(names) |->
     ExtractPlayer(RawPlayer(k, names[k], Absent, Absent, Absent))]

\* the leaderboards of one to three players
RankSnapshots ==
  {Ranking(names) : names \in
     {n \in UNION {[1..k -> Names] : k \in 1..3} :
        \A i, j \in 1..Len(n) : i # j => n[i] # n[j]}}

\* team tags and countries a leaderboard record may carry
Tags == {Absent, Str(""), Str("A"), Str("B")}
Countries == {Absent, Str("se")}
\* team_id of a team tag
TeamOf(tag) == IF tag = Str("A") THEN Str("1")
               ELSE IF tag = Str("B") THEN Str("2") ELSE Absent

\* the leaderboards of the single player "a" with every team and country,
\* as the extraction script writes them and as an older history file
\* without precomputed ids holds them, and the leaderboard of "b" alone
TagSnapshots ==
  LET raw == {RawPlayer(1, "a", t, TeamOf(t), c) : t \in Tags, c \in Countries}
  IN {<<p>> : p \in raw} \cup {<<ExtractPlayer(p)>> : p \in raw}
       \cup {Ranking(<<"b">>)}

\* leaderboards of the four players a, b, c, d in some of their orders
WideSnapshots ==
  {Ranking(names) : names \in {<<"a", "b", "c", "d">>, <<"b", "a", "c", "d">>,
                               <<"a", "b", "d", "c">>, <<"d", "c", "b", "a">>,
                               <<"b", "c", "d", "a">>, <<"c", "a", "d", "b">>}}

\* the last step of the page, when there is none
NoOutcome ==
  [op |-> "none", load |-> Absent, player |-> Absent, wasFavorite |-> FALSE,
   file |-> Absent]

\* no run of the extraction script
NoExtraction ==
  [op |-> "none", commits |-> <<>>, MAX_SNAPSHOTS |-> 0, valid |-> {},
   sampled |-> <<>>, snapshots |-> Absent]

\* no call of a Favorites method
NoCall ==
  [op |-> "none", playerId |-> "", before |-> <<>>, returned |-> FALSE,
   attempted |-> FALSE, written |-> FALSE, notified |-> <<>>]

\* the result of no call
NoResult ==
  [op |-> "none", count |-> 0, scope |-> 0, timeDays |-> 0, now |-> 0,
   out |-> <<>>]
\* no render yet
NoRender ==
  [op |-> "none", renders |-> 0, snapshot |-> Absent,
   previousSnapshot |-> Absent, animate |-> FALSE, animated |-> FALSE,
   teamsOnly |-> FALSE, oldPlayers |-> <<>>]

\* the count, scope and time-scope arguments App.renderStats passes
Counts == {1, 5}
Scopes == {1, 2, 500}
TimeScopes == {0, 1, 2}
\* days between the last snapshot and the moment the page computes
Lags == {0, 1}

VARIABLES
  Timeline,        \* the fields of the Timeline object
  slider,          \* the range input #timeline-slider: [max, value]
  timers,          \* the browser's live timers: [id, kind]
  animationSpeed,  \* Leaderboard.animationSpeed
  emitted,         \* the onSnapshotChange calls made by the last handler
  last,            \* the last handler run, its input and the state before it
  playedSinceInit, \* startPlay has been entered via togglePlay since init
  listeners,       \* how many times Timeline.init registered its listeners
  quiet            \* the caller has stopped issuing actions

\* the state of the Timeline player and of the page around it
timelineVars == <<Timeline, slider, timers, animationSpeed, emitted, last,
                  playedSinceInit, listeners, quiet>>

VARIABLES
  dataset,         \* the snapshots of the history file, oldest first
  result           \* the last call of a Stats function and what it returned

\* the history file and the statistics computed from it
statsVars == <<dataset, result>>

VARIABLES
  App,             \* App.data, App.playerHistory, App.currentRegion
  PlayerModal,     \* PlayerModal's fields and its favorite-button listeners
  favorites,       \* Favorites.favorites
  loads,           \* the loadData calls waiting for the network
  errorShown,      \* the #error element is visible
  switches,        \* the region switches made so far
  outcome          \* the last step of the page and what it started from

\* the page: App, the player modal and the favorites
appVars == <<App, PlayerModal, favorites, loads, errorShown, switches,
             outcome>>

VARIABLES
  Leaderboard,     \* the fields of the Leaderboard object
  container,       \* the rows of the #leaderboard element, top to bottom
  rowsToAnimate,   \* the rowsToAnimate array of the last render
  rendered         \* the last render, its arguments and the list it replaced

\* the leaderboard table
boardVars == <<Leaderboard, container, rowsToAnimate, rendered>>

VARIABLES
  extraction,      \* the last run of the extraction script for one region
  Favorites,       \* the fields of the Favorites object
  localStorage,    \* the value stored under Favorites.STORAGE_KEY
  favLast          \* the last call of a Favorites method: what it
                   \* returned, whether it called and completed setItem,
                   \* and how often it invoked each callback

\* the extraction script and the Favorites module
sideVars == <<extraction, Favorites, localStorage, favLast>>

vars == <<timelineVars, statsVars, appVars, boardVars, sideVars>>

(***************************************************************************)
(* The handlers are written as operators on a record w ("world") holding   *)
(* the mutable state they touch, so that a handler that calls another      *)
(* (the speed button: stopPlay then startPlay) composes them.              *)
(***************************************************************************)
World ==
  [tl |-> Timeline, slider |-> slider, timers |-> timers,
   anim |-> animationSpeed, emitted |-> <<>>, listeners |-> listeners]

Intervals(ts) == {t \in ts : t.kind = "interval"}
Timeouts(ts) == {t \in ts : t.kind = "timeout"}

\* the handle setInterval / setTimeout returns: one no live timer has
FreshId(ts) ==
  CHOOSE i \in 1..(Cardinality(ts) + 1) :
    /\ \A t \in ts : t.id # i
    /\ \A j \in 1..(Cardinality(ts) + 1) : (\A t \in ts : t.id # j) => i <= j

\* this.onSnapshotChange(cur, prev), guarded by `if (this.onSnapshotChange)`
Notify(w, cur, prev) ==
  IF w.tl.onSnapshotChange # NoCallback
    THEN [w EXCEPT !.emitted = Append(@, <<cur, prev>>)]
    ELSE w

\* Timeline.stopPlay
stopPlay(w) ==
  LET w1 == [w EXCEPT !.tl.isPlaying = FALSE]
  IN IF w1.tl.playInterval # NULL
       THEN [w1 EXCEPT !.timers = {t \in @ : t.id # w1.tl.playInterval},
                       !.tl.playInterval = NULL]
       ELSE w1

\* Timeline.startInterval
startInterval(w) ==
  LET id == FreshId(w.timers)
  IN [w EXCEPT !.timers = @ \cup {[id |-> id, kind |-> "interval"]},
               !.tl.playInterval = id]

\* the test `this.currentIndex >= this.snapshots.length - 1` of startPlay
AtEnd(tl) == tl.currentIndex >= Len(tl.snapshots) - 1

\* startPlay with the restart-from-the-beginning branch left out
startPlay_noReset(w) == startInterval([w EXCEPT !.tl.isPlaying = TRUE])

\* Timeline.startPlay
startPlay(w) ==
  LET w1 == [w EXCEPT !.tl.isPlaying = TRUE]
  IN IF AtEnd(w1.tl)
       THEN LET w2 == [w1 EXCEPT !.tl.currentIndex = 0, !.slider.value = 0]
                w3 == Notify(w2, At(w2.tl.snapshots, 0), NoSnapshot)
                id == FreshId(w3.timers)
            IN [w3 EXCEPT !.timers = @ \cup {[id |-> id, kind |-> "timeout"]}]
       ELSE startInterval(w1)

\* the callback startPlay hands to setTimeout
delayedStart(w) ==
  IF w.tl.isPlaying THEN startInterval(w) ELSE w

\* the interval callback looping back to the first snapshot at the end
intervalTick_wrap(w) ==
  LET previousIndex == w.tl.currentIndex
      next == (previousIndex + 1) % Len(w.tl.snapshots)
      w1 == [w EXCEPT !.tl.currentIndex = next, !.slider.value = next]
  IN Notify(w1, At(w1.tl.snapshots, next), At(w1.tl.snapshots, previousIndex))

\* the callback startInterval hands to setInterval
intervalTick(w) ==
  IF w.tl.currentIndex < Len(w.tl.snapshots) - 1
    THEN LET previousIndex == w.tl.currentIndex
             w1 == [w EXCEPT !.tl.currentIndex = @ + 1,
                             !.slider.value = previousIndex + 1]
         IN Notify(w1, At(w1.tl.snapshots, w1.tl.currentIndex),
                       At(w1.tl.snapshots, previousIndex))
    ELSE stopPlay(w)

\* Timeline.togglePlay
togglePlay(w) == IF w.tl.isPlaying THEN stopPlay(w) ELSE startPlay(w)

\* the previousSnapshot goToIndex and onSliderChange compute
PreviousSnapshot(snaps, previousIndex) ==
  IF previousIndex >= 0 THEN At(snaps, previousIndex) ELSE NoSnapshot

\* goToIndex reporting the snapshot before the new one as the previous one
goToIndex_adjacentPrev(w, index) ==
  IF index >= 0 /\ index < Len(w.tl.snapshots)
    THEN LET w1 == [w EXCEPT !.tl.currentIndex = index,
                             !.slider.value = index]
         IN Notify(w1, At(w1.tl.snapshots, index),
                       PreviousSnapshot(w1.tl.snapshots, index - 1))
    ELSE w

\* Timeline.goToIndex
goToIndex(w, index) ==
  IF index >= 0 /\ index < Len(w.tl.snapshots)
    THEN LET previousIndex == w.tl.currentIndex
             w1 == [w EXCEPT !.tl.currentIndex = index,
                             !.slider.value = index]
         IN Notify(w1, At(w1.tl.snapshots, index),
                       PreviousSnapshot(w1.tl.snapshots, previousIndex))
    ELSE w

\* Timeline.goToPrevious
goToPrevious(w) ==
  IF w.tl.currentIndex > 0 THEN goToIndex(w, w.tl.currentIndex - 1) ELSE w

\* goToNext wrapping to the first snapshot at the end
goToNext_wrap(w) ==
  IF Len(w.tl.snapshots) > 0
    THEN LET previousIndex == w.tl.currentIndex
             next == (previousIndex + 1) % Len(w.tl.snapshots)
             w1 == [w EXCEPT !.tl.currentIndex = next, !.slider.value = next]
         IN Notify(w1, At(w1.tl.snapshots, next),
                       PreviousSnapshot(w1.tl.snapshots, previousIndex))
    ELSE w

\* Timeline.goToNext
goToNext(w) ==
  IF w.tl.currentIndex < Len(w.tl.snapshots) - 1
    THEN goToIndex(w, w.tl.currentIndex + 1)
    ELSE w

\* Timeline.goToLatest
goToLatest(w) == goToIndex(w, Len(w.tl.snapshots) - 1)

\* Timeline.onSliderChange
onSliderChange(w) ==
  LET newIndex == w.slider.value
  IN IF newIndex # w.tl.currentIndex
       THEN LET previousIndex == w.tl.currentIndex
                w1 == [w EXCEPT !.tl.currentIndex = newIndex]
            IN Notify(w1, At(w1.tl.snapshots, w1.tl.currentIndex),
                          PreviousSnapshot(w1.tl.snapshots, previousIndex))
       ELSE w

\* the click listener init puts on every .speed-btn
speedClick(w, s) ==
  LET w1 == [w EXCEPT !.tl.speed = s, !.anim = s]
  IN IF w1.tl.isPlaying THEN startPlay(stopPlay(w1)) ELSE w1

\* what one listener of Timeline.init does with a DOM event: the click on
\* #play-btn and on a speed button, the slider's input, and handleKeydown
Handle(w, event) ==
  CASE event.type = "play" -> togglePlay(w)
    [] event.type = "speed" -> speedClick(w, event.speed)
    [] event.type = "input" -> onSliderChange(w)
    [] event.type = "ArrowLeft" -> goToPrevious(w)
    [] event.type = "ArrowRight" -> goToNext(w)
    [] event.type = " " -> togglePlay(w)

\* one DOM event runs once per listener registered for it, each run on the
\* state the run before it left
Dispatch(w, event) ==
  LET run[n \in 0..w.listeners] ==
        IF n = 0 THEN w ELSE Handle(run[n - 1], event)
  IN run[w.listeners]

\* init keeping the index of the sequence it replaces
init_keepIndex(w, snapshots, onSnapshotChange) ==
  LET w1 == IF w.tl.isPlaying THEN stopPlay(w) ELSE w
      kept == IF w.tl.initialized THEN w.tl.currentIndex
                                  ELSE Len(snapshots) - 1
  IN [w1 EXCEPT !.tl.snapshots = snapshots,
                !.tl.onSnapshotChange = onSnapshotChange,
                !.tl.currentIndex = kept,
                !.slider.max = Len(snapshots) - 1,
                !.slider.value = kept,
                !.listeners = IF w.tl.initialized THEN @ ELSE @ + 1,
                !.tl.initialized = TRUE]

\* the listener block of Timeline.init with its `initialized` test left out
addListeners_everyInit(w) ==
  [w EXCEPT !.listeners = @ + 1, !.tl.initialized = TRUE]

\* the `if (!this.initialized)` block of Timeline.init: the listeners are
\* added on the first call only
addListeners(w) ==
  IF ~w.tl.initialized
    THEN [w EXCEPT !.listeners = @ + 1, !.tl.initialized = TRUE]
    ELSE w

\* Timeline.init
init(w, snapshots, onSnapshotChange) ==
  LET w1 == IF w.tl.isPlaying THEN stopPlay(w) ELSE w
  IN addListeners([w1 EXCEPT !.tl.snapshots = snapshots,
                             !.tl.onSnapshotChange = onSnapshotChange,
                             !.tl.currentIndex = Len(snapshots) - 1,
                             !.slider.max = Len(snapshots) - 1,
                             !.slider.value = Len(snapshots) - 1])

(***************************************************************************)
(* The state machine.                                                      *)
(***************************************************************************)
\* the state before a handler, as the claims refer to it
Pre(op, arg) ==
  [op |-> op, arg |-> arg,
   index |-> Timeline.currentIndex,
   playing |-> Timeline.isPlaying]

\* a Timeline handler has run and left the world w
Apply(w, op, arg) ==
  /\ Timeline' = w.tl
  /\ slider' = w.slider
  /\ timers' = w.timers
  /\ animationSpeed' = w.anim
  /\ emitted' = w.emitted
  /\ listeners' = w.listeners
  /\ last' = Pre(op, arg)
  /\ UNCHANGED quiet

\* a Timeline handler has run and left the world w; it touches nothing else
Commit(w, op, arg) ==
  /\ Apply(w, op, arg)
  /\ UNCHANGED <<statsVars, boardVars, sideVars>>
  /\ UNCHANGED appVars

\* a handler that creates a timer runs only while the table has room
Room(w) == Cardinality(w.timers) <= MaxTimers

Init ==
  /\ Timeline = [snapshots |-> <<>>, currentIndex |-> 0, isPlaying |-> FALSE,
                 playInterval |-> NULL, speed |-> 2,
                 onSnapshotChange |-> NoCallback, initialized |-> FALSE]
  /\ slider = [max |-> 0, value |-> 0]
  /\ timers = {}
  /\ animationSpeed = 1
  /\ emitted = <<>>
  /\ last = [op |-> "construct", arg |-> 0, index |-> 0, playing |-> FALSE]
  /\ playedSinceInit = FALSE
  /\ listeners = 0
  /\ quiet = FALSE
  /\ dataset = <<>>
  /\ result = NoResult
  /\ App = [data |-> Absent, playerHistory |-> Absent,
            currentRegion |-> "europe", started |-> FALSE, ready |-> FALSE]
  /\ PlayerModal = [playerHistory |-> Absent, currentPlayerId |-> Absent,
                    listeners |-> 0, hidden |-> TRUE, pushed |-> 0]
  /\ favorites = {}
  /\ loads = {}
  /\ errorShown = FALSE
  /\ switches = 0
  /\ outcome = NoOutcome
  /\ Leaderboard = [container |-> Absent, currentPlayers |-> <<>>,
                    previousSnapshot |-> Absent, teamsOnly |-> FALSE,
                    currentSnapshot |-> Absent]
  /\ container = <<>>
  /\ rowsToAnimate = <<>>
  /\ rendered = NoRender
  /\ extraction = NoExtraction
  /\ Favorites = [favorites |-> <<>>, onChangeCallbacks |-> 0,
                  loaded |-> FALSE]
  /\ localStorage = [kind |-> "null", items |-> <<>>]
  /\ favLast = NoCall

\* App.initModules / App.switchRegion call Timeline.init with the snapshots
\* of the dataset just loaded
TimelineInit ==
  \E snaps \in SnapshotSeqs :
    /\ Commit(init(World, snaps, RenderCallback), "init", Len(snaps))
    /\ playedSinceInit' = FALSE

\* a click on #play-btn, or the space key
TogglePlay ==
  /\ Timeline.initialized
  /\ Room(Dispatch(World, [type |-> "play"]))
  /\ Commit(Dispatch(World, [type |-> "play"]), "togglePlay", 0)
  /\ playedSinceInit' = (playedSinceInit \/ ~Timeline.isPlaying)

\* a click on a speed button
SpeedClick ==
  /\ Timeline.initialized
  /\ \E s \in Speeds :
       /\ Room(Dispatch(World, [type |-> "speed", speed |-> s]))
       /\ Commit(Dispatch(World, [type |-> "speed", speed |-> s]), "speed", s)
  /\ UNCHANGED playedSinceInit

\* the user drags the slider to v: the browser sets slider.value within
\* [min, max] and dispatches `input`
SliderInput ==
  /\ Timeline.initialized
  /\ \E v \in 0..slider.max :
       Commit(Dispatch([World EXCEPT !.slider.value = v], [type |-> "input"]),
              "slider", v)
  /\ UNCHANGED playedSinceInit

\* goToIndex called with any integer
GoToIndex ==
  /\ Timeline.initialized
  /\ \E j \in -1..(MaxSnapshots + 1) :
       Commit(goToIndex(World, j), "goToIndex", j)
  /\ UNCHANGED playedSinceInit

\* the ArrowLeft key
GoToPrevious ==
  /\ Timeline.initialized
  /\ Commit(Dispatch(World, [type |-> "ArrowLeft"]), "goToPrevious", 0)
  /\ UNCHANGED playedSinceInit

\* the ArrowRight key
GoToNext ==
  /\ Timeline.initialized
  /\ Commit(Dispatch(World, [type |-> "ArrowRight"]), "goToNext", 0)
  /\ UNCHANGED playedSinceInit

GoToLatest ==
  /\ Timeline.initialized
  /\ Commit(goToLatest(World), "goToLatest", 0)
  /\ UNCHANGED playedSinceInit

\* a pending setTimeout of startPlay fires; the browser drops it
TimeoutFire ==
  /\ \E t \in Timeouts(timers) :
       Commit(delayedStart([World EXCEPT !.timers = @ \ {t}]), "timeout", t.id)
  /\ UNCHANGED playedSinceInit

\* a live setInterval fires; it stays live unless its callback clears it
IntervalFire ==
  /\ \E t \in Intervals(timers) :
       Commit(intervalTick(World), "tick", t.id)
  /\ UNCHANGED playedSinceInit

Next ==
  \/ TimelineInit
  \/ TogglePlay
  \/ SpeedClick
  \/ SliderInput
  \/ GoToIndex
  \/ GoToPrevious
  \/ GoToNext
  \/ GoToLatest
  \/ TimeoutFire
  \/ IntervalFire

Spec == Init /\ [][Next]_vars

(***************************************************************************)
(* Playback left alone: the caller may stop issuing actions for good       *)
(* (Quiesce); from then on only the browser's timers run.  A live timer    *)
(* of a page that stays open fires again and again, which is weak          *)
(* fairness of the two timer actions.                                      *)
(***************************************************************************)
Quiesce ==
  /\ Timeline.initialized
  /\ ~quiet
  /\ quiet' = TRUE
  /\ UNCHANGED <<Timeline, slider, timers, animationSpeed, emitted, last,
                 playedSinceInit, listeners>>
  /\ UNCHANGED <<statsVars, boardVars, sideVars>>
  /\ UNCHANGED appVars

NextFair ==
  \/ ~quiet /\ TimelineInit
  \/ ~quiet /\ TogglePlay
  \/ ~quiet /\ SpeedClick
  \/ ~quiet /\ SliderInput
  \/ ~quiet /\ GoToIndex
  \/ ~quiet /\ GoToPrevious
  \/ ~quiet /\ GoToNext
  \/ ~quiet /\ GoToLatest
  \/ Quiesce
  \/ TimeoutFire
  \/ IntervalFire

SpecFair ==
  Init /\ [][NextFair]_vars /\ WF_vars(TimeoutFire) /\ WF_vars(IntervalFire)

(***************************************************************************)
(* Sanity of the model.                                                    *)
(***************************************************************************)
TypeOK ==
  /\ Timeline.currentIndex \in 0..MaxSnapshots
  /\ Timeline.isPlaying \in BOOLEAN
  /\ Timeline.speed \in Speeds
  /\ Timeline.playInterval \in {NULL} \cup {t.id : t \in Intervals(timers)}
  /\ \A t1, t2 \in timers : t1.id = t2.id => t1 = t2
  /\ slider.value = Timeline.currentIndex

(***************************************************************************)
(* Timeline player: the claims.                                            *)
(*                                                                         *)
(* `last` holds the handler that produced the current state, its input     *)
(* and the index and play flag it started from; `emitted` holds the        *)
(* onSnapshotChange calls it made.  Paused@i is ~isPlaying with            *)
(* currentIndex = i, Playing@i is isPlaying with currentIndex = i.         *)
(***************************************************************************)
Length == Len(Timeline.snapshots)

\* the last handler was a timer callback
TimerFired == last.op \in {"tick", "timeout"}

\* the last handler called onSnapshotChange exactly once, with (cur, prev)
EmittedOnce(cur, prev) == emitted = << <<cur, prev>> >>

\* C1: at most one advance-tick timer (the interval, or the delayed-start
\* timeout that stands for it) is live at any moment.
C1_AtMostOneTimer == Cardinality(timers) <= 1

\* C2: while isPlaying is false no timer firing changes currentIndex or
\* invokes onSnapshotChange.
C2_PausedTimersInert ==
  (TimerFired /\ ~last.playing) =>
    /\ Timeline.currentIndex = last.index
    /\ emitted = <<>>

\* C3: play() from Paused@(N-1) sets the index to 0 and emits exactly one
\* callback (snapshots[0], null), with no interval of this play running yet;
\* play() from Paused@i, i < N-1, keeps the index, emits nothing and starts
\* the interval; a tick in Playing@i, i < N-1, advances by one and the tick
\* that finds the index at N-1 leaves Paused@(N-1).
C3_PlayFromEnd ==
  /\ (last.op = "togglePlay" /\ ~last.playing /\ last.index = Length - 1) =>
       /\ Timeline.currentIndex = 0
       /\ Timeline.isPlaying
       /\ EmittedOnce(At(Timeline.snapshots, 0), NoSnapshot)
       /\ Timeline.playInterval = NULL
  /\ (last.op = "togglePlay" /\ ~last.playing /\ last.index < Length - 1) =>
       /\ Timeline.currentIndex = last.index
       /\ Timeline.isPlaying
       /\ emitted = <<>>
       /\ Timeline.playInterval # NULL
  /\ (last.op = "tick" /\ last.playing /\ last.index < Length - 1) =>
       /\ Timeline.currentIndex = last.index + 1
       /\ Timeline.isPlaying
  /\ (last.op = "tick" /\ last.playing /\ last.index = Length - 1) =>
       /\ Timeline.currentIndex = Length - 1
       /\ ~Timeline.isPlaying

\* C3 witness: play() was pressed in Paused@(N-1) of a sequence of at least
\* two snapshots and the index is back at 0.
C3_Witness ==
  /\ last.op = "togglePlay" /\ ~last.playing
  /\ Length >= 2 /\ last.index = Length - 1
  /\ Timeline.currentIndex = 0 /\ Timeline.isPlaying

\* C4: a tick in Playing@i with i < N-1 moves to i+1 and calls the callback
\* exactly once with (snapshots[i+1], snapshots[i]); a tick in Playing@(N-1)
\* only sets the state to Paused@(N-1) and calls nothing; no tick ever
\* decreases the index.
C4_AdvanceTick ==
  /\ (last.op = "tick" /\ last.playing /\ last.index < Length - 1) =>
       /\ Timeline.currentIndex = last.index + 1
       /\ Timeline.isPlaying
       /\ EmittedOnce(At(Timeline.snapshots, last.index + 1),
                      At(Timeline.snapshots, last.index))
  /\ (last.op = "tick" /\ last.playing /\ last.index = Length - 1) =>
       /\ Timeline.currentIndex = last.index
       /\ ~Timeline.isPlaying
       /\ emitted = <<>>
  /\ TimerFired => Timeline.currentIndex >= last.index

\* C4 witness: a tick advanced a playing timeline from an index i >= 1.
C4_Witness ==
  /\ last.op = "tick" /\ last.playing
  /\ last.index >= 1 /\ last.index < Length - 1
  /\ Timeline.currentIndex = last.index + 1

\* the last handler was a seek to j that the source lets through
SeekTo(j) ==
  \/ last.op \in {"slider", "goToIndex"} /\ last.arg = j
  \/ last.op = "goToPrevious" /\ j = last.index - 1
  \/ last.op = "goToNext" /\ j = last.index + 1

\* C5: seek(j) with 0 <= j < N and j # i, paused or playing, on the slider
\* path, goToIndex, goToPrevious and goToNext: the index becomes j, the play
\* flag is unchanged and the callback is called exactly once with
\* (snapshots[j], snapshots[i]), i being the index before.
C5_SeekMoves ==
  \A j \in 0..(Length - 1) :
    (SeekTo(j) /\ j # last.index) =>
      /\ Timeline.currentIndex = j
      /\ Timeline.isPlaying = last.playing
      /\ EmittedOnce(At(Timeline.snapshots, j),
                     At(Timeline.snapshots, last.index))

\* C5 witness: goToIndex moved a playing timeline to another index.
C5_Witness ==
  /\ last.op = "goToIndex" /\ last.playing
  /\ last.arg \in 0..(Length - 1) /\ last.arg # last.index
  /\ Timeline.currentIndex = last.arg

\* C6: seek(j) with j equal to the current index is a no-op on the slider
\* path, goToIndex and goToLatest: index and play flag unchanged, callback
\* not called.
C6_SeekSameIsNoop ==
  ( \/ last.op \in {"slider", "goToIndex"} /\ last.arg = last.index
    \/ last.op = "goToLatest" /\ last.index = Length - 1 ) =>
    /\ Timeline.currentIndex = last.index
    /\ Timeline.isPlaying = last.playing
    /\ emitted = <<>>

\* the step is a seek the source ignores: goToIndex out of [0, N),
\* goToPrevious at index 0, goToNext at index N-1
IgnoredSeek ==
  \/ last'.op = "goToIndex" /\ (last'.arg < 0 \/ last'.arg >= Length)
  \/ last'.op = "goToPrevious" /\ Timeline.currentIndex = 0
  \/ last'.op = "goToNext" /\ Timeline.currentIndex = Length - 1

\* C7: an out-of-range goToIndex, goToPrevious at 0 and goToNext at N-1
\* change nothing (index, play flag, timer, slider) and call no callback.
C7_OutOfRangeIgnored ==
  [][IgnoredSeek =>
       /\ UNCHANGED <<Timeline, slider, timers, animationSpeed>>
       /\ emitted' = <<>>]_vars

\* C7 witness: goToIndex(N) was called on a playing timeline.
C7_Witness ==
  /\ last.op = "goToIndex" /\ last.arg = Length
  /\ last.playing /\ Timeline.playInterval # NULL

\* C8: once initialised, 0 <= currentIndex < N in every reachable state.
C8_IndexInRange ==
  Timeline.initialized =>
    (0 <= Timeline.currentIndex /\ Timeline.currentIndex < Length)

\* C8 witness: a re-init replaced a longer sequence, left at its last
\* index, by a shorter one.
C8_Witness ==
  /\ last.op = "init"
  /\ last.index > Length - 1
  /\ Timeline.currentIndex = Length - 1

\* C9: a speed click changes only the speed and the clock: index and play
\* flag unchanged, no callback; when playing, exactly one timer, the new
\* interval, is live afterwards.
C9_SpeedOnlyClock ==
  last.op = "speed" =>
    /\ Timeline.speed = last.arg
    /\ Timeline.currentIndex = last.index
    /\ Timeline.isPlaying = last.playing
    /\ emitted = <<>>
    /\ last.playing =>
         /\ Cardinality(timers) = 1
         /\ \A t \in timers :
              t.kind = "interval" /\ t.id = Timeline.playInterval

\* C10: after init the state is Paused@(N-1), and until play() is called no
\* timer firing moves the index.
C10_InitPaused ==
  /\ last.op = "init" =>
       (~Timeline.isPlaying /\ Timeline.currentIndex = Length - 1)
  /\ (TimerFired /\ ~playedSinceInit) => Timeline.currentIndex = last.index

\* Paused@(N-1)
PausedAtEnd == ~Timeline.isPlaying /\ Timeline.currentIndex = Length - 1

\* C11: once the caller has stopped issuing actions while the timeline is
\* playing, playback eventually reaches Paused@(N-1) and stays there.
C11_PlaybackStops ==
  []((quiet /\ Timeline.isPlaying) => <>[]PausedAtEnd)

\* C11 witness: the caller left a timeline of at least two snapshots and
\* the tick that found the index at N-1 has stopped playback.
C11_Witness ==
  /\ quiet /\ Length >= 2
  /\ last.op = "tick" /\ last.playing
  /\ PausedAtEnd

\* C14: after any number of Timeline.init calls one user event runs its
\* handler exactly once: a play-button click flips isPlaying, an arrow key
\* moves the index by one step (none at the ends), a speed click while
\* playing clears the tick interval and schedules exactly one new timer.
C14_OneHandlerPerEvent ==
  [][/\ Timeline'.initialized => listeners' = 1
     /\ last'.op = "togglePlay" => Timeline'.isPlaying = ~Timeline.isPlaying
     /\ last'.op = "goToNext" =>
          Timeline'.currentIndex =
            IF Timeline.currentIndex < Length - 1
              THEN Timeline.currentIndex + 1 ELSE Timeline.currentIndex
     /\ last'.op = "goToPrevious" =>
          Timeline'.currentIndex =
            IF Timeline.currentIndex > 0
              THEN Timeline.currentIndex - 1 ELSE Timeline.currentIndex
     /\ last'.op = "speed" /\ Timeline.isPlaying =>
          LET kept == {t \in timers : t.id # Timeline.playInterval}
          IN /\ kept \subseteq timers'
             /\ Cardinality(timers' \ kept) = 1]_vars

\* C14 witness: a timer of an earlier play is still live although nothing
\* was played since the last init (so init ran again after a play), and an
\* arrow-left press has moved the index from 2 to 1, not to 0.
C14_Witness ==
  /\ last.op = "goToPrevious" /\ last.index = 2
  /\ ~playedSinceInit /\ timers # {}
  /\ Timeline.currentIndex = 1

(***************************************************************************)
(* Stats: the state machine.  The extraction script appends snapshots to   *)
(* the history file, one per day; the page then reads the file and calls   *)
(* one of the functions on it.  A behaviour follows one such call, from    *)
(* the writing of its input to its result.                                 *)
(***************************************************************************)
\* extractRegionHistory pushes the snapshot of the next commit
ExtractSnapshot ==
  \E players \in RankSnapshots \cup TagSnapshots \cup WideSnapshots :
    /\ result = NoResult
    /\ Len(dataset) < MaxSnapshots
    /\ \E family \in {RankSnapshots, TagSnapshots, WideSnapshots} :
         /\ players \in family
         /\ \A k \in 1..Len(dataset) : dataset[k].players \in family
    /\ dataset' = Append(dataset, [timestamp |-> Len(dataset) + 1,
                                   players |-> players])
    /\ UNCHANGED result
    /\ UNCHANGED <<timelineVars, appVars, boardVars, sideVars>>

\* Stats.buildPlayerHistory(snapshots, timeDays)
BuildPlayerHistory ==
  \E timeDays \in TimeScopes, lag \in Lags :
    LET now == Len(dataset) + lag
    IN /\ result = NoResult
       /\ result' = [op |-> "buildPlayerHistory", count |-> 0, scope |-> 0,
                     timeDays |-> timeDays, now |-> now,
                     out |-> buildPlayerHistory(dataset, timeDays, now)]
       /\ UNCHANGED <<dataset, timelineVars, appVars, boardVars, sideVars>>

\* Stats.getWinners as App.renderStats calls it
GetWinners ==
  \E count \in Counts, scope \in Scopes, timeDays \in TimeScopes, lag \in Lags :
    LET now == Len(dataset) + lag
    IN /\ result = NoResult
       /\ result' = [op |-> "getWinners", count |-> count, scope |-> scope,
                     timeDays |-> timeDays, now |-> now,
                     out |-> getWinners(buildPlayerHistory(dataset, 0, now),
                                        count, scope, timeDays, dataset, now)]
       /\ UNCHANGED <<dataset, timelineVars, appVars, boardVars, sideVars>>

\* Stats.getLosers as App.renderStats calls it
GetLosers ==
  \E count \in Counts, scope \in Scopes, timeDays \in TimeScopes, lag \in Lags :
    LET now == Len(dataset) + lag
    IN /\ result = NoResult
       /\ result' = [op |-> "getLosers", count |-> count, scope |-> scope,
                     timeDays |-> timeDays, now |-> now,
                     out |-> getLosers(buildPlayerHistory(dataset, 0, now),
                                       count, scope, timeDays, dataset, now)]
       /\ UNCHANGED <<dataset, timelineVars, appVars, boardVars, sideVars>>

\* Stats.filterSnapshotsByTime as buildPlayerHistory calls it; filter()
\* builds a new array and nothing writes to `snapshots`
FilterSnapshotsByTime ==
  \E timeDays \in TimeScopes, lag \in Lags :
    LET now == Len(dataset) + lag
    IN /\ result = NoResult
       /\ result' = [op |-> "filterSnapshotsByTime", count |-> 0, scope |-> 0,
                     timeDays |-> timeDays, now |-> now,
                     out |-> filterSnapshotsByTime(dataset, timeDays, now)]
       /\ UNCHANGED <<dataset, timelineVars, appVars, boardVars, sideVars>>

\* Stats.getGeneralStats as App.renderStats calls it, on the snapshots of a
\* loaded file (App.loadData has thrown for a file without snapshots) and
\* the history built from all of them
GetGeneralStats ==
  /\ result = NoResult
  /\ Len(dataset) > 0
  /\ result' = [op |-> "getGeneralStats", count |-> 0, scope |-> 0,
                timeDays |-> 0, now |-> Len(dataset),
                out |-> getGeneralStats(dataset,
                                        buildPlayerHistory(dataset, 0,
                                                           Len(dataset)))]
  /\ UNCHANGED <<dataset, timelineVars, appVars, boardVars, sideVars>>

\* Stats.getPlayerStats as PlayerModal.show calls it, for a player of the
\* leaderboard or an id the history does not have
GetPlayerStats ==
  LET history == buildPlayerHistory(dataset, 0, Len(dataset))
  IN \E playerId \in {history[n].id : n \in 1..Len(history)} \cup {"x|"} :
       /\ result = NoResult
       /\ Len(dataset) > 0
       /\ result' = [op |-> "getPlayerStats", count |-> 0, scope |-> 0,
                     timeDays |-> 0, now |-> Len(dataset),
                     out |-> [playerId |-> playerId,
                              stats |-> getPlayerStats(history, playerId)]]
       /\ UNCHANGED <<dataset, timelineVars, appVars, boardVars, sideVars>>

NextStats ==
  \/ ExtractSnapshot
  \/ GetPlayerStats
  \/ GetGeneralStats
  \/ FilterSnapshotsByTime
  \/ BuildPlayerHistory
  \/ GetWinners
  \/ GetLosers

SpecStats == Init /\ [][NextStats]_vars

(***************************************************************************)
(* Stats: the claims.  What a claim expects is computed from the history   *)
(* file itself, never from the functions it is about.                      *)
(***************************************************************************)
\* every player record of the history file
Records ==
  UNION {{dataset[k].players[i] : i \in 1..Len(dataset[k].players)} :
           k \in 1..Len(dataset)}

\* name + "|" + (country or "")
NameAndCountry(p) == p.name \o "|" \o OrElse(p.country, "")

\* C16: getPlayerId gives two records of equal name and country the same id
\* whatever their team_tag / team_id, and gives a record that carries the
\* extraction script's precomputed id the value name + "|" + (country or "")
\* that the fallback computes on the record without its id.
C16_IdIgnoresTeam ==
  /\ \A p, q \in Records :
       p.name = q.name /\ p.country = q.country
         => getPlayerId(p) = getPlayerId(q)
  /\ \A p \in Records :
       /\ getPlayerId(p) = NameAndCountry(p)
       /\ getPlayerId([p EXCEPT !.id = Absent]) = NameAndCountry(p)

\* C16 witness: the file holds the same player under two team tags, once
\* with the precomputed id and once without, and buildPlayerHistory has
\* filed both records under one id.
C16_Witness ==
  /\ \E p, q \in Records :
       /\ p.name = q.name /\ p.country = q.country
       /\ Truthy(p.team_tag) /\ Truthy(q.team_tag)
       /\ p.team_tag # q.team_tag
       /\ p.id # Absent /\ q.id = Absent
  /\ result.op = "buildPlayerHistory" /\ result.timeDays = 0
  /\ Len(result.out) = 1 /\ Len(result.out[1].ranks) = Len(dataset)

\* the snapshots inside the time scope of the last call
Window ==
  IF result.timeDays = 0 THEN dataset
  ELSE SelectSeq(dataset,
                 LAMBDA s : s.timestamp >= result.now - result.timeDays)

\* the ids the records of the window's snapshots stand for
WindowIds ==
  LET W == Window
  IN UNION {{NameAndCountry(W[k].players[i]) : i \in 1..Len(W[k].players)} :
              k \in 1..Len(W)}

\* the appearances of an id in the window, oldest first: for every snapshot
\* that holds the id its number in the window and its timestamp, and the
\* player's place in it and record
Sightings(id) ==
  LET W == Window
      seen[k \in 0..Len(W)] ==
        IF k = 0 THEN <<>>
        ELSE LET here == {i \in 1..Len(W[k].players) :
                            NameAndCountry(W[k].players[i]) = id}
                 place == CHOOSE i \in here : TRUE
             IN IF here = {} THEN seen[k - 1]
                ELSE Append(seen[k - 1],
                            [snapshot |-> k, timestamp |-> W[k].timestamp,
                             place |-> place, player |-> W[k].players[place]])
  IN seen[Len(W)]

\* the value carried forward from the values a field had in the sightings:
\* the latest non-empty one, or the first if there is none
Carried(values) ==
  LET filled == {k \in 1..Len(values) : Truthy(values[k])}
  IN IF filled = {} THEN values[1]
     ELSE values[CHOOSE k \in filled : \A j \in filled : j <= k]

\* C17: in the history buildPlayerHistory returns for any number of
\* snapshots, a player's team_tag (and country) is the value of the latest
\* observation that carried a non-empty one, or the first observation's
\* value if none did: an absent or empty value never replaces it.
C17_TeamCarriedForward ==
  result.op = "buildPlayerHistory" =>
    \A n \in 1..Len(result.out) :
      LET entry == result.out[n]
          obs == Sightings(entry.id)
      IN /\ Len(obs) > 0
         /\ entry.team_tag =
              Carried([k \in 1..Len(obs) |-> obs[k].player.team_tag])
         /\ entry.country =
              Carried([k \in 1..Len(obs) |-> obs[k].player.country])

\* C17 witness: the player's tag is A, absent, B over three snapshots and
\* the history built from them holds B.
C17_Witness ==
  /\ Len(dataset) = 3
  /\ dataset[1].players[1].team_tag = Str("A")
  /\ ~Truthy(dataset[2].players[1].team_tag)
  /\ dataset[3].players[1].team_tag = Str("B")
  /\ \A k \in 1..3 : dataset[k].players[1].name = "a"
                     /\ dataset[k].players[1].country = Absent
  /\ result.op = "buildPlayerHistory" /\ result.timeDays = 0
  /\ Len(result.out) = 1 /\ result.out[1].team_tag = Str("B")

\* C17 witness of the middle step: after tag A and an absent tag the history
\* still holds A.
C17_WitnessKept ==
  /\ Len(dataset) = 2
  /\ dataset[1].players[1].team_tag = Str("A")
  /\ ~Truthy(dataset[2].players[1].team_tag)
  /\ dataset[2].players[1].name = "a"
  /\ result.op = "buildPlayerHistory" /\ result.timeDays = 0
  /\ Len(result.out) = 1 /\ result.out[1].team_tag = Str("A")

\* C18: the history buildPlayerHistory returns holds every id of the
\* time-filtered snapshots exactly once, and under each id one (timestamp,
\* rank) entry per filtered snapshot that contains the id, in snapshot
\* order; no filtered snapshot gives an empty history.
C18_RanksMirrorAppearances ==
  result.op = "buildPlayerHistory" =>
    /\ \A m, n \in 1..Len(result.out) :
         result.out[m].id = result.out[n].id => m = n
    /\ {result.out[n].id : n \in 1..Len(result.out)} = WindowIds
    /\ \A n \in 1..Len(result.out) :
         LET obs == Sightings(result.out[n].id)
         IN result.out[n].ranks =
              [k \in 1..Len(obs) |-> [timestamp |-> obs[k].timestamp,
                                      rank |-> obs[k].player.rank]]
    /\ Len(Window) = 0 => result.out = <<>>

\* C18 witness: the time scope has dropped a snapshot, and a player of the
\* remaining ones is missing from one of them.
C18_Witness ==
  /\ result.op = "buildPlayerHistory" /\ result.timeDays > 0
  /\ Len(Window) = 2 /\ Len(dataset) = 3
  /\ Len(result.out) = 3
  /\ \E n \in 1..3 : Len(result.out[n].ranks) = 1
                     /\ result.out[n].ranks[1].timestamp = 2

\* what the window says of every id in it: the number of its appearances,
\* its first and last rank, and where it first appears (which is where it
\* enters the history map)
Summaries ==
  [id \in WindowIds |->
     LET obs == Sightings(id)
     IN [count |-> Len(obs),
         firstRank |-> obs[1].player.rank,
         lastRank |-> obs[Len(obs)].player.rank,
         firstSeen |-> <<obs[1].snapshot, obs[1].place>>]]

\* the rank change the last call counts: places won for getWinners, places
\* lost for getLosers
Delta(s) ==
  IF result.op = "getWinners" THEN s.firstRank - s.lastRank
  ELSE s.lastRank - s.firstRank

\* C19: every entry of getWinners has at least two observations in the
\* active window, lastRank <= scope and change = firstRank - lastRank > 0,
\* where firstRank and lastRank are its first and last rank in the window;
\* every entry of getLosers has them with change = lastRank - firstRank > 0.
C19_EntriesQualify ==
  result.op \in {"getWinners", "getLosers"} =>
    LET of == Summaries
    IN \A n \in 1..Len(result.out) :
         LET entry == result.out[n]
         IN /\ entry.id \in DOMAIN of
            /\ of[entry.id].count >= 2
            /\ entry.firstRank = of[entry.id].firstRank
            /\ entry.lastRank = of[entry.id].lastRank
            /\ entry.lastRank <= result.scope
            /\ entry.change > 0
            /\ entry.change = IF result.op = "getWinners"
                                THEN entry.firstRank - entry.lastRank
                                ELSE entry.lastRank - entry.firstRank

\* C19 witness: within a time scope that drops the oldest snapshot, one
\* player has climbed to rank 1 and is returned, another has climbed from
\* rank 3 to rank 2, outside the scope of 1, and is not.
C19_Witness ==
  /\ result.op = "getWinners" /\ result.scope = 1 /\ result.count = 5
  /\ result.timeDays > 0 /\ Len(Window) = 2 /\ Len(dataset) = 3
  /\ Len(result.out) = 1 /\ result.out[1].lastRank = 1
  /\ \E id \in WindowIds :
       /\ Summaries[id].count >= 2
       /\ Summaries[id].lastRank = 2 /\ Summaries[id].firstRank = 3

\* the ids getWinners / getLosers may return, `of` being Summaries
Eligible(of) ==
  {id \in DOMAIN of : /\ of[id].count >= 2
                      /\ of[id].lastRank <= result.scope
                      /\ Delta(of[id]) > 0}

\* s comes before t in the iteration order of the history map
Earlier(s, t) ==
  \/ s.firstSeen[1] < t.firstSeen[1]
  \/ s.firstSeen[1] = t.firstSeen[1] /\ s.firstSeen[2] < t.firstSeen[2]

\* s comes before t in the order of the result
Precedes(s, t) ==
  \/ Delta(s) > Delta(t)
  \/ Delta(s) = Delta(t) /\ Earlier(s, t)

\* C20: getWinners / getLosers return the first `count` of the eligible
\* entries (all of them if there are fewer), ordered by decreasing change
\* and, for equal change, by the iteration order of the history map.
C20_TopCountInOrder ==
  result.op \in {"getWinners", "getLosers"} =>
    LET of == Summaries
        eligible == Eligible(of)
        ids == {result.out[n].id : n \in 1..Len(result.out)}
    IN /\ Len(result.out) <= result.count
       /\ ids \subseteq eligible
       /\ Len(result.out) = IF Cardinality(eligible) < result.count
                              THEN Cardinality(eligible) ELSE result.count
       /\ \A n \in 1..Len(result.out) :
            result.out[n].change = Delta(of[result.out[n].id])
       /\ \A m, n \in 1..Len(result.out) :
            m < n => Precedes(of[result.out[m].id], of[result.out[n].id])
       /\ \A x \in eligible \ ids :
            \A n \in 1..Len(result.out) : Precedes(of[result.out[n].id], of[x])

\* C20 witness: two players have won one place each, "b" was the first of
\* them on the leaderboard, and a count of 1 returns "b" alone.
C20_Witness ==
  /\ result.op = "getWinners" /\ result.count = 1
  /\ Eligible(Summaries) = {"a|", "b|"}
  /\ Delta(Summaries["a|"]) = Delta(Summaries["b|"])
  /\ Earlier(Summaries["b|"], Summaries["a|"])
  /\ Len(result.out) = 1 /\ result.out[1].id = "b|"

\* C20 witness of a full result: two players have lost as many places and
\* both are returned, "c" before "a".
C20_WitnessTie ==
  /\ result.op = "getLosers" /\ result.count = 5
  /\ Len(result.out) = 2
  /\ result.out[1].change = result.out[2].change
  /\ result.out[1].id = "c|" /\ result.out[2].id = "a|"

(***************************************************************************)
(* App (src/unnamed/part_000, lines 423-955), PlayerModal and Favorites.   *)
(*                                                                         *)
(* App.init and App.switchRegion are async: each runs up to its first      *)
(* await in the step that calls it, and loadData has two awaits that       *)
(* wait for the network (fetch, response.json()).  What follows the        *)
(* second await runs to the end without the event loop taking another      *)
(* task: the remaining await of the caller resumes in a microtask.  Other  *)
(* handlers run between those steps.                                       *)
(***************************************************************************)
\* snapshot k of the history file of region r
Snap(r, k, players) ==
  [timestamp |-> k, commitHash |-> <<r, k>>, players |-> players]

\* what the server may answer for data/history-<r>.json: a file without
\* snapshots, with none, with empty ones only, with an empty one among full
\* ones, and with one to MaxSnapshots full ones
Files(r) ==
  {[region |-> r, snapshots |-> Absent],
   [region |-> r, snapshots |-> Obj(<<>>)],
   [region |-> r, snapshots |-> Obj(<<Snap(r, 1, <<>>)>>)],
   [region |-> r, snapshots |->
      Obj(<<Snap(r, 1, <<>>), Snap(r, 2, Ranking(<<"a", "b">>))>>)]}
  \cup
  {[region |-> r, snapshots |->
      Obj([k \in 1..n |-> Snap(r, k, IF k = 1 THEN Ranking(<<"a">>)
                                              ELSE Ranking(<<"b", "a">>))])] :
     n \in 1..MaxSnapshots}

\* App.loadData without the filter of its snapshots
loadData_unfiltered(app, file) ==
  LET a1 == [app EXCEPT !.data = Obj(file)]
  IN IF file.snapshots = Absent \/ file.snapshots = Obj(<<>>)
       THEN [app |-> a1, ok |-> FALSE]
       ELSE [app |-> [a1 EXCEPT !.playerHistory =
                        Obj(buildPlayerHistory(file.snapshots[1], 0, 0))],
             ok |-> TRUE]

\* App.loadData from `this.data = await response.json()` on: the App it
\* leaves and whether it returned (ok) or threw
loadData(app, file) ==
  LET a1 == [app EXCEPT !.data = Obj(file)]
  IN IF file.snapshots = Absent \/ file.snapshots = Obj(<<>>)
       THEN [app |-> a1, ok |-> FALSE]
       ELSE LET kept == SelectSeq(file.snapshots[1],
                                  LAMBDA s : Len(s.players) > 0)
                a2 == [a1 EXCEPT !.data = Obj([file EXCEPT
                                                 !.snapshots = Obj(kept)])]
            IN IF Len(kept) = 0
                 THEN [app |-> a2, ok |-> FALSE]
                 ELSE [app |-> [a2 EXCEPT !.playerHistory =
                                  Obj(buildPlayerHistory(kept, 0, 0))],
                       ok |-> TRUE]

\* PlayerModal.init
modalInit(modal, playerHistory) ==
  [modal EXCEPT !.playerHistory = playerHistory, !.listeners = @ + 1]

\* PlayerModal.show without its test of the stats
show_unchecked(modal, playerId) ==
  [modal EXCEPT !.currentPlayerId = Str(playerId), !.pushed = @ + 1,
                !.hidden = FALSE]

\* PlayerModal.show: `hidden` is the class of #player-modal, `pushed` the
\* number of history.pushState calls
show(modal, playerId) ==
  IF getPlayerStats(modal.playerHistory[1], playerId) = Absent
    THEN modal
    ELSE [modal EXCEPT !.currentPlayerId = Str(playerId), !.pushed = @ + 1,
                       !.hidden = FALSE]

\* Favorites.toggle
toggle(favs, playerId) ==
  IF playerId \in favs THEN favs \ {playerId} ELSE favs \cup {playerId}

\* PlayerModal.toggleFavorite
toggleFavorite(w) ==
  IF ~Truthy(w.modal.currentPlayerId) THEN w
  ELSE [w EXCEPT !.favorites = toggle(@, w.modal.currentPlayerId[1])]

\* the core state a load is to leave alone until its data is valid
CoreState ==
  [data |-> App.data, playerHistory |-> App.playerHistory,
   currentRegion |-> App.currentRegion,
   snapshots |-> Timeline.snapshots, index |-> Timeline.currentIndex]

\* a load that starts now, for region r
NewLoad(caller, r) ==
  [caller |-> caller, region |-> r, stage |-> "fetch", before |-> CoreState,
   disturbed |-> FALSE]

\* the loads in flight, once another step of the page has changed the core
\* state under them
Disturbed(ls) == {[l EXCEPT !.disturbed = TRUE] : l \in ls}

\* App.init up to the fetch of loadData
AppInit ==
  \E r \in Regions :
    /\ ~App.started
    /\ App' = [App EXCEPT !.currentRegion = r, !.started = TRUE]
    /\ loads' = {[NewLoad("init", r) EXCEPT !.before.currentRegion = r]}
    /\ outcome' = [NoOutcome EXCEPT !.op = "init"]
    /\ UNCHANGED <<PlayerModal, favorites, errorShown, switches>>
    /\ UNCHANGED <<timelineVars, statsVars, boardVars, sideVars>>

\* a region pill or a hash change calls App.switchRegion, which runs up to
\* the fetch of loadData
SwitchRegion ==
  \E r \in Regions :
    /\ App.ready
    /\ r # App.currentRegion
    /\ switches < MaxSwitches
    /\ App' = [App EXCEPT !.currentRegion = r]
    /\ loads' = Disturbed(loads) \cup {NewLoad("switch", r)}
    /\ switches' = switches + 1
    /\ outcome' = [NoOutcome EXCEPT !.op = "switchRegion"]
    /\ UNCHANGED <<PlayerModal, favorites, errorShown>>
    /\ UNCHANGED <<timelineVars, statsVars, boardVars, sideVars>>

\* a load has thrown: the catch of App.init / App.switchRegion
Failed(l, app) ==
  /\ App' = app
  /\ loads' = IF app = App THEN loads \ {l} ELSE Disturbed(loads \ {l})
  /\ errorShown' = TRUE
  /\ outcome' = [NoOutcome EXCEPT !.op = "loadFailed", !.load = Obj(l)]
  /\ UNCHANGED <<PlayerModal, favorites, switches>>
  /\ UNCHANGED <<timelineVars, statsVars, boardVars, sideVars>>

\* fetch settles: with a response that is not ok loadData throws, else it
\* goes on to await response.json()
FetchDone ==
  \E l \in loads, ok \in BOOLEAN :
    /\ l.stage = "fetch"
    /\ IF ok
         THEN /\ loads' = (loads \ {l}) \cup {[l EXCEPT !.stage = "json"]}
              /\ outcome' = [NoOutcome EXCEPT !.op = "fetched"]
              /\ UNCHANGED <<App, PlayerModal, favorites, errorShown, switches>>
              /\ UNCHANGED <<timelineVars, statsVars, boardVars, sideVars>>
         ELSE Failed(l, App)

\* response.json() settles with the file: the rest of loadData runs, and
\* if it returns, so does the rest of App.init (initModules) or of
\* App.switchRegion: Timeline.init and PlayerModal.init
JsonDone ==
  \E l \in loads :
    /\ l.stage = "json"
    /\ \E file \in Files(l.region) :
         LET loaded == loadData(App, file)
             app == loaded.app
         IN IF loaded.ok
              THEN /\ App' = [app EXCEPT !.ready = TRUE]
                   /\ Apply(init(World, app.data[1].snapshots[1], RenderCallback),
                            "init", Len(app.data[1].snapshots[1]))
                   /\ playedSinceInit' = FALSE
                   /\ PlayerModal' = modalInit(PlayerModal, app.playerHistory)
                   /\ loads' = Disturbed(loads \ {l})
                   /\ outcome' = [NoOutcome EXCEPT !.op = "loaded",
                                                   !.load = Obj(l),
                                                   !.file = Obj(file)]
                   /\ UNCHANGED <<favorites, errorShown, switches>>
                   /\ UNCHANGED <<statsVars, boardVars, sideVars>>
              ELSE Failed(l, app)

\* a click on a player of the leaderboard: PlayerModal.show
ShowPlayer ==
  \E playerId \in {"a|", "b|", "c|"} :
    /\ App.ready
    /\ show(PlayerModal, playerId).pushed <= MaxShows
    /\ PlayerModal' = show(PlayerModal, playerId)
    /\ outcome' = [NoOutcome EXCEPT !.op = "show", !.player = Str(playerId)]
    /\ UNCHANGED <<App, favorites, loads, errorShown, switches>>
    /\ UNCHANGED <<timelineVars, statsVars, boardVars, sideVars>>

\* one click on #modal-favorite-btn runs toggleFavorite once per listener
\* PlayerModal.init has put on it
clickFavorite(w) ==
  LET run[n \in 0..w.modal.listeners] ==
        IF n = 0 THEN w ELSE toggleFavorite(run[n - 1])
  IN run[w.modal.listeners]

\* a click on #modal-favorite-btn, the modal showing a player
FavoriteClick ==
  LET w == clickFavorite([modal |-> PlayerModal, favorites |-> favorites])
  IN /\ PlayerModal.currentPlayerId # Absent
     /\ favorites' = w.favorites
     /\ outcome' = [NoOutcome EXCEPT
                      !.op = "favoriteClick",
                      !.player = PlayerModal.currentPlayerId,
                      !.wasFavorite = PlayerModal.currentPlayerId[1] \in favorites]
     /\ UNCHANGED <<App, PlayerModal, loads, errorShown, switches>>
     /\ UNCHANGED <<timelineVars, statsVars, boardVars, sideVars>>

\* the ArrowLeft key while the page is up
ArrowLeft ==
  /\ Timeline.initialized
  /\ Apply(Dispatch(World, [type |-> "ArrowLeft"]), "goToPrevious", 0)
  /\ UNCHANGED playedSinceInit
  /\ loads' = IF Timeline'.currentIndex = Timeline.currentIndex
                THEN loads ELSE Disturbed(loads)
  /\ outcome' = [NoOutcome EXCEPT !.op = "key"]
  /\ UNCHANGED <<App, PlayerModal, favorites, errorShown, switches>>
  /\ UNCHANGED <<statsVars, boardVars, sideVars>>

NextApp ==
  \/ AppInit
  \/ SwitchRegion
  \/ FetchDone
  \/ JsonDone
  \/ ShowPlayer
  \/ FavoriteClick
  \/ ArrowLeft

SpecApp == Init /\ [][NextApp]_vars

(***************************************************************************)
(* App: the claims.                                                        *)
(***************************************************************************)
\* C12: in every state in which a handler or a timer can run, App.data's
\* snapshots, App.playerHistory, Timeline.snapshots and
\* PlayerModal.playerHistory derive from one validated dataset: the
\* Timeline and the modal hold the snapshots of App.data and the history
\* built from them, and before the first dataset has been validated none
\* of them is set.
C12_DatasetSwitchedTogether ==
  IF Timeline.initialized
    THEN /\ App.data # Absent
         /\ App.data[1].snapshots = Obj(Timeline.snapshots)
         /\ App.playerHistory = Obj(buildPlayerHistory(Timeline.snapshots, 0, 0))
         /\ PlayerModal.playerHistory = App.playerHistory
    ELSE /\ App.data = Absent
         /\ App.playerHistory = Absent
         /\ PlayerModal.playerHistory = Absent

\* C13: when a load has failed, the error is shown and App.data,
\* App.playerHistory, App.currentRegion and the Timeline's snapshots and
\* index are what they were when the load was started (no other step of
\* the page having changed them meanwhile).
C13_FailedLoadChangesNothing ==
  outcome.op = "loadFailed" /\ ~outcome.load[1].disturbed =>
    /\ errorShown
    /\ CoreState = outcome.load[1].before

\* C15: a click on the modal's favorite button flips the favorite status of
\* the current player, however often PlayerModal.init has run.
C15_FavoriteClickTogglesOnce ==
  outcome.op = "favoriteClick" =>
    (outcome.player[1] \in favorites) = ~outcome.wasFavorite

(***************************************************************************)
(* Stats: winners and losers against each other and against the newest     *)
(* snapshot, and the time filter on its own.                               *)
(***************************************************************************)
\* the snapshots with every rank r replaced by -r
NegateSnapshots(snaps) ==
  [k \in 1..Len(snaps) |->
     [snaps[k] EXCEPT !.players =
        [i \in 1..Len(@) |-> [@[i] EXCEPT !.rank = 0 - @]]]]

\* the history map with every rank r replaced by -r
NegateHistory(history) ==
  [n \in 1..Len(history) |->
     [history[n] EXCEPT !.ranks =
        [k \in 1..Len(@) |-> [@[k] EXCEPT !.rank = 0 - @]]]]

\* the ids of a result, in its order
IdsOf(out) == [n \in 1..Len(out) |-> out[n].id]

\* what getLosers returns for the rank-negated input of the last call
MirroredLosers ==
  getLosers(NegateHistory(buildPlayerHistory(dataset, 0, result.now)),
            result.count, result.scope, result.timeDays,
            NegateSnapshots(dataset), result.now)

\* no player who has climbed within the window ends it below the scope
ScopeKeepsClimbers ==
  LET of == Summaries
  IN \A id \in DOMAIN of :
       of[id].count >= 2 /\ of[id].firstRank > of[id].lastRank
         => of[id].lastRank <= result.scope

\* C21 as stated: for every history, count and scope, getLosers on the
\* rank-negated history returns the same players in the same order as
\* getWinners on the original.
C21_MirrorAnyScope ==
  result.op = "getWinners" => IdsOf(MirroredLosers) = IdsOf(result.out)

\* C21 amended: getLosers on the rank-negated history returns the same
\* players in the same order as getWinners on the original whenever the
\* scope leaves out no player who has climbed, i.e. every such player's last
\* rank is <= scope (a negated last rank is never above the scope, so the
\* scope test of getLosers removes nobody from the negated history).
C21_MirrorWithinScope ==
  result.op = "getWinners" /\ ScopeKeepsClimbers
    => IdsOf(MirroredLosers) = IdsOf(result.out)

\* C21 witness: two players have climbed, both end within the scope of 2,
\* and getWinners has returned both.
C21_Witness ==
  /\ result.op = "getWinners" /\ result.scope = 2 /\ result.count = 5
  /\ ScopeKeepsClimbers
  /\ Len(result.out) = 2
  /\ IdsOf(MirroredLosers) = IdsOf(result.out)

\* C21, where the statement as given fails: a player has climbed from rank
\* 3 to rank 2, the scope of 1 keeps the player out of getWinners, and
\* getLosers returns the player for the negated history.
C21_WitnessOutOfScope ==
  /\ result.op = "getWinners" /\ result.scope = 1
  /\ result.out = <<>>
  /\ Len(MirroredLosers) = 1 /\ MirroredLosers[1].lastRank = 0 - 2

\* the newest snapshot of the history file holds the id with a rank within
\* the scope of the last call
InLatestWithinScope(id) ==
  /\ Len(dataset) > 0
  /\ LET latest == dataset[Len(dataset)]
     IN \E i \in 1..Len(latest.players) :
          /\ NameAndCountry(latest.players[i]) = id
          /\ latest.players[i].rank <= result.scope

\* C22: every player getWinners or getLosers returns is in the most recent
\* snapshot of the sequence, with a rank <= scope there.
C22_CurrentRankWithinScope ==
  result.op \in {"getWinners", "getLosers"} =>
    \A n \in 1..Len(result.out) : InLatestWithinScope(result.out[n].id)

\* C22, where it fails: a player has climbed from rank 2 to rank 1 and is
\* missing from the newest snapshot, and getWinners returns the player.
C22_WitnessGone ==
  /\ result.op = "getWinners" /\ result.timeDays = 0
  /\ Len(dataset) = 3
  /\ Len(result.out) = 1
  /\ result.out[1].firstRank = 2 /\ result.out[1].lastRank = 1
  /\ \A i \in 1..Len(dataset[3].players) :
       NameAndCountry(dataset[3].players[i]) # result.out[1].id

\* the positions of the snapshots of the history file that are not older
\* than the time scope of the last call
KeptPositions ==
  {k \in 1..Len(dataset) :
     dataset[k].timestamp >= result.now - result.timeDays}

\* the i-th smallest member of a set of positions
Nth(positions, i) ==
  CHOOSE k \in positions : Cardinality({j \in positions : j < k}) = i - 1

\* C23: filterSnapshotsByTime(snapshots, 0) returns the input sequence as it
\* is; for days > 0 it returns exactly the snapshots whose timestamp is
\* >= now - days, each once and in the order of the input.
C23_FilterKeepsWindow ==
  result.op = "filterSnapshotsByTime" =>
    /\ result.timeDays = 0 => result.out = dataset
    /\ result.timeDays > 0 =>
         LET kept == KeptPositions
         IN /\ Len(result.out) = Cardinality(kept)
            /\ \A i \in 1..Len(result.out) :
                 result.out[i] = dataset[Nth(kept, i)]

\* C23 witness: of three snapshots the first is older than the cutoff, the
\* second was taken exactly at the cutoff, and the second and third are
\* returned.
C23_Witness ==
  /\ result.op = "filterSnapshotsByTime" /\ result.timeDays > 0
  /\ Len(dataset) = 3
  /\ dataset[2].timestamp = result.now - result.timeDays
  /\ result.out = <<dataset[2], dataset[3]>>

\* C23 witness for days = 0: the three snapshots come back as they are.
C23_WitnessAllTime ==
  /\ result.op = "filterSnapshotsByTime" /\ result.timeDays = 0
  /\ Len(dataset) = 3 /\ result.out = dataset

(***************************************************************************)
(* Leaderboard (src/web/js/leaderboard.js).                                *)
(*                                                                         *)
(* The table is redrawn by Leaderboard.render, which App calls once after  *)
(* loading (without animation) and the Timeline calls on every snapshot    *)
(* change (with animation), and by the teams-only toggle.  A row is the    *)
(* record of what createRow puts into the element; an entry of             *)
(* rowsToAnimate holds its row, deltaY and the two flags, a flag the       *)
(* object does not carry reading as false, as it does in the               *)
(* requestAnimationFrame callback.                                         *)
(***************************************************************************)
\* var(--row-height), in pixels
rowHeight == 40

\* String.prototype.trim on the team tags of the model, whose only white
\* space is the tag of one blank
trim(s) == IF s = " " THEN "" ELSE s

\* Leaderboard.filterPlayers
filterPlayers(lb, players) ==
  IF ~lb.teamsOnly THEN players
  ELSE SelectSeq(players,
                 LAMBDA p : Truthy(p.team_tag) /\ trim(p.team_tag[1]) # "")

\* an object filled by map[getPlayerId(list[i])] = value of i, for i in
\* list order: the last player of an id decides
Keyed(list, values) ==
  [id \in {getPlayerId(list[i]) : i \in 1..Len(list)} |->
     values[CHOOSE i \in 1..Len(list) :
              /\ getPlayerId(list[i]) = id
              /\ \A j \in 1..Len(list) : getPlayerId(list[j]) = id => j <= i]]

\* map[key], undefined if the object has no such key
Lookup(map, key) == IF key \in DOMAIN map THEN Obj(map[key]) ELSE Absent

\* the prevRanks object of Leaderboard.render
prevRanksOf(prevPlayers) ==
  Keyed(prevPlayers, [i \in 1..Len(prevPlayers) |-> prevPlayers[i].rank])

\* the newPositions / oldPositions objects of animateTransition
positionsOf(players) == Keyed(players, [i \in 1..Len(players) |-> i - 1])

\* getChangeDisplay with the difference taken the other way round
getChangeDisplay_reversed(currentRank, prevRank) ==
  IF prevRank = Absent THEN [text |-> "NEW", class |-> "up"]
  ELSE LET diff == currentRank - prevRank[1]
       IN IF diff > 0 THEN [text |-> "↑" \o ToString(diff), class |-> "up"]
          ELSE IF diff < 0
            THEN [text |-> "↓" \o ToString(0 - diff), class |-> "down"]
            ELSE [text |-> "-", class |-> "same"]

\* Leaderboard.getChangeDisplay; prevRank is Absent for undefined or null
getChangeDisplay(currentRank, prevRank) ==
  IF prevRank = Absent THEN [text |-> "NEW", class |-> "up"]
  ELSE LET diff == prevRank[1] - currentRank
       IN IF diff > 0 THEN [text |-> "↑" \o ToString(diff), class |-> "up"]
          ELSE IF diff < 0
            THEN [text |-> "↓" \o ToString(0 - diff), class |-> "down"]
            ELSE [text |-> "-", class |-> "same"]

\* Leaderboard.createRow
createRow(player, prevRank) ==
  [playerId |-> getPlayerId(player), rank |-> player.rank,
   change |-> getChangeDisplay(player.rank, prevRank),
   team |-> OrElse(player.team_tag, ""), name |-> player.name]

\* Leaderboard.renderFull: the rows put into the container
renderFull(players, prevRanks) ==
  [i \in 1..Len(players) |->
     createRow(players[i], Lookup(prevRanks, getPlayerId(players[i])))]

\* the loop body of animateTransition with deltaY counted from the new
\* position to the old one
track_fromNew(player, prevRanks, newPositions, oldPositions) ==
  LET playerId == getPlayerId(player)
      row == createRow(player, Lookup(prevRanks, playerId))
      newPosition == newPositions[playerId]
      oldPosition == Lookup(oldPositions, playerId)
  IN IF oldPosition # Absent /\ oldPosition[1] # newPosition
       THEN <<[row |-> row,
               deltaY |-> (newPosition - oldPosition[1]) * rowHeight,
               movedUp |-> newPosition < oldPosition[1], isNew |-> FALSE]>>
       ELSE IF oldPosition = Absent
         THEN <<[row |-> row, deltaY |-> 0, movedUp |-> FALSE,
                 isNew |-> TRUE]>>
         ELSE <<>>

\* the loop body of animateTransition without its branch for new players
track_noNew(player, prevRanks, newPositions, oldPositions) ==
  LET playerId == getPlayerId(player)
      row == createRow(player, Lookup(prevRanks, playerId))
      newPosition == newPositions[playerId]
      oldPosition == Lookup(oldPositions, playerId)
  IN IF oldPosition # Absent /\ oldPosition[1] # newPosition
       THEN <<[row |-> row,
               deltaY |-> (oldPosition[1] - newPosition) * rowHeight,
               movedUp |-> newPosition < oldPosition[1], isNew |-> FALSE]>>
       ELSE <<>>

\* what the loop body of animateTransition pushes to rowsToAnimate for one
\* player
track(player, prevRanks, newPositions, oldPositions) ==
  LET playerId == getPlayerId(player)
      row == createRow(player, Lookup(prevRanks, playerId))
      newPosition == newPositions[playerId]
      oldPosition == Lookup(oldPositions, playerId)
  IN IF oldPosition # Absent /\ oldPosition[1] # newPosition
       THEN <<[row |-> row,
               deltaY |-> (oldPosition[1] - newPosition) * rowHeight,
               movedUp |-> newPosition < oldPosition[1], isNew |-> FALSE]>>
       ELSE IF oldPosition = Absent
         THEN <<[row |-> row, deltaY |-> 0, movedUp |-> FALSE,
                 isNew |-> TRUE]>>
         ELSE <<>>

\* Leaderboard.animateTransition: the rows of the fragment and rowsToAnimate
animateTransition(lb, newPlayers, prevRanks) ==
  LET newPositions == positionsOf(newPlayers)
      oldPositions == positionsOf(lb.currentPlayers)
      tracked[k \in 0..Len(newPlayers)] ==
        IF k = 0 THEN <<>>
        ELSE tracked[k - 1]
               \o track(newPlayers[k], prevRanks, newPositions, oldPositions)
  IN [container |-> renderFull(newPlayers, prevRanks),
      rowsToAnimate |-> tracked[Len(newPlayers)]]

\* Leaderboard.render; previousSnapshot is Absent for null.  The result
\* holds the object, the container's rows, rowsToAnimate and whether
\* animateTransition ran
render(lb, snapshot, previousSnapshot, animate) ==
  LET lb1 == [lb EXCEPT !.currentSnapshot = Obj(snapshot),
                        !.previousSnapshot =
                          IF previousSnapshot # Absent
                            THEN previousSnapshot ELSE @]
      players == filterPlayers(lb1, snapshot.players)
      prevPlayers == IF previousSnapshot # Absent
                       THEN filterPlayers(lb1, previousSnapshot[1].players)
                       ELSE <<>>
      prevRanks == prevRanksOf(prevPlayers)
      animated == animate /\ Len(lb1.currentPlayers) > 0
                    /\ previousSnapshot # Absent
      drawn == IF animated
                 THEN animateTransition(lb1, players, prevRanks)
                 ELSE [container |-> renderFull(players, prevRanks),
                       rowsToAnimate |-> <<>>]
  IN [lb |-> [lb1 EXCEPT !.currentPlayers = players,
                         !.previousSnapshot = Obj(snapshot)],
      container |-> drawn.container,
      rowsToAnimate |-> drawn.rowsToAnimate,
      animated |-> animated]

\* Leaderboard.toggleTeamsOnly, given the rows now in the container
toggleTeamsOnly(lb, rows) ==
  LET lb1 == [lb EXCEPT !.teamsOnly = ~@]
  IN IF lb1.currentSnapshot # Absent
       THEN render(lb1, lb1.currentSnapshot[1], lb1.previousSnapshot, FALSE)
       ELSE [lb |-> lb1, container |-> rows, rowsToAnimate |-> <<>>,
             animated |-> FALSE]

\* the team tag of a player of the model: "a" changes teams, "b" is on
\* team B, "c" on none
BoardPlayer(rank, name, tagOfA) ==
  LET tag == IF name = "a" THEN tagOfA
             ELSE IF name = "b" THEN Str("B") ELSE Absent
  IN ExtractPlayer(RawPlayer(rank, name, tag, TeamOf(tag), Absent))

\* a snapshot whose players hold the ranks 1, 2, ... in the order of `names`
BoardSnapshot(names, tagOfA) ==
  [timestamp |-> 1,
   players |-> [k \in 1..Len(names) |-> BoardPlayer(k, names[k], tagOfA)]]

\* the snapshots the table is asked to draw: two or three players, "a"
\* with and without a team, and once with a tag of one blank
BoardSnapshots ==
  {BoardSnapshot(names, tagOfA) :
     names \in {n \in UNION {[1..k -> Names] : k \in 2..3} :
                  \A i, j \in 1..Len(n) : i # j => n[i] # n[j]},
     tagOfA \in {Absent, Str("A")}}
    \cup {BoardSnapshot(<<"a", "b">>, Str(" "))}

\* the variables after a render
Drawn(b, op, snapshot, previousSnapshot, animate) ==
  /\ Leaderboard' = b.lb
  /\ container' = b.container
  /\ rowsToAnimate' = b.rowsToAnimate
  /\ rendered' = [op |-> op,
                  renders |-> IF op = "render" THEN rendered.renders + 1
                              ELSE rendered.renders,
                  snapshot |-> snapshot,
                  previousSnapshot |-> previousSnapshot, animate |-> animate,
                  animated |-> b.animated, teamsOnly |-> b.lb.teamsOnly,
                  oldPlayers |-> Leaderboard.currentPlayers]
  /\ UNCHANGED <<timelineVars, statsVars, appVars, sideVars>>

\* Leaderboard.init, reading the stored teams-only preference
LeaderboardInit ==
  \E stored \in {Absent, Str("true"), Str("false")} :
    /\ Leaderboard.container = Absent
    /\ Leaderboard' = [Leaderboard EXCEPT !.container = Obj("leaderboard"),
                                          !.teamsOnly = (stored = Str("true"))]
    /\ UNCHANGED <<container, rowsToAnimate, rendered>>
    /\ UNCHANGED <<timelineVars, statsVars, appVars, sideVars>>

\* App.renderInitialLeaderboard, which App.init runs right after
\* initModules and App.switchRegion after every switch: the first render,
\* of Timeline.getCurrentSnapshot() and Timeline.getPreviousSnapshot()
\* (null if there is none)
RenderInitial ==
  \E snapshot \in BoardSnapshots,
     previousSnapshot \in {Absent} \cup {Obj(s) : s \in BoardSnapshots} :
    /\ Leaderboard.container # Absent
    /\ rendered.renders < MaxRenders
    /\ Drawn(render(Leaderboard, snapshot, previousSnapshot, FALSE),
             "render", Obj(snapshot), previousSnapshot, FALSE)

\* the Timeline's onSnapshotChange callback, set by App.initModules
RenderChange ==
  \E snapshot \in BoardSnapshots,
     previousSnapshot \in {Absent} \cup {Obj(s) : s \in BoardSnapshots} :
    /\ rendered.renders > 0
    /\ rendered.renders < MaxRenders
    /\ Drawn(render(Leaderboard, snapshot, previousSnapshot, TRUE),
             "render", Obj(snapshot), previousSnapshot, TRUE)

\* a click on #teams-only-toggle
ToggleTeamsOnly ==
  /\ Leaderboard.container # Absent
  /\ Drawn(toggleTeamsOnly(Leaderboard, container), "toggleTeamsOnly",
           Leaderboard.currentSnapshot, Leaderboard.previousSnapshot, FALSE)

NextLeaderboard ==
  \/ LeaderboardInit
  \/ RenderInitial
  \/ RenderChange
  \/ ToggleTeamsOnly

SpecLeaderboard == Init /\ [][NextLeaderboard]_vars

(***************************************************************************)
(* Leaderboard: the claims.  The list a render has to show and the places  *)
(* its players held before are computed from the arguments of the render   *)
(* and the list it replaced, never from the rows.                          *)
(***************************************************************************)
\* the player carries a team tag that is not blank
HasTeam(p) == p.team_tag \notin {Absent, Str(""), Str(" ")}

\* the players of a list the table shows under the teams-only setting
Shown(players, teamsOnly) ==
  IF teamsOnly THEN SelectSeq(players, HasTeam) ELSE players

\* the list the last render had to show
ShownNow == Shown(rendered.snapshot[1].players, rendered.teamsOnly)

\* the places (from 1) an id holds in a list
Places(list, id) == {i \in 1..Len(list) : NameAndCountry(list[i]) = id}

\* the entries of rowsToAnimate made for an id
Tracked(id) ==
  {k \in 1..Len(rowsToAnimate) : rowsToAnimate[k].row.playerId = id}

\* C24: a render puts exactly one row per player of the current filtered
\* list into the table, in the list's order, so a player of the previous
\* list only gets none; when it animates, every player of the list is
\* exactly one of: new (no place in the old list; one entry flagged isNew),
\* moved (another place in the old list; one entry not flagged isNew) or
\* stable (same place; no entry), and rowsToAnimate holds nothing else.
C24_OneRowOneClass ==
  rendered.snapshot # Absent =>
    LET cur == ShownNow
        old == rendered.oldPlayers
    IN /\ Len(container) = Len(cur)
       /\ \A i \in 1..Len(cur) :
            /\ container[i].playerId = NameAndCountry(cur[i])
            /\ container[i].rank = cur[i].rank
            /\ container[i].name = cur[i].name
       /\ ~rendered.animated => rowsToAnimate = <<>>
       /\ rendered.animated =>
            /\ \A k \in 1..Len(rowsToAnimate) :
                 \E i \in 1..Len(container) : rowsToAnimate[k].row = container[i]
            /\ \A i \in 1..Len(cur) :
                 LET mine == Tracked(NameAndCountry(cur[i]))
                     was == Places(old, NameAndCountry(cur[i]))
                 IN /\ was = {} =>
                         /\ Cardinality(mine) = 1
                         /\ \A k \in mine : rowsToAnimate[k].isNew
                    /\ was # {} /\ was # {i} =>
                         /\ Cardinality(mine) = 1
                         /\ \A k \in mine : ~rowsToAnimate[k].isNew
                    /\ was = {i} => mine = {}

\* C24 witness: the table showed a, b and now shows a, c, b: "a" is stable,
\* "c" is new and "b" has moved, three rows and two entries.
C24_Witness ==
  /\ rendered.animated
  /\ Len(rendered.oldPlayers) = 2 /\ Len(container) = 3
  /\ container[1].playerId = "a|" /\ Places(rendered.oldPlayers, "a|") = {1}
  /\ container[2].playerId = "c|" /\ Places(rendered.oldPlayers, "c|") = {}
  /\ container[3].playerId = "b|" /\ Places(rendered.oldPlayers, "b|") = {2}
  /\ Len(rowsToAnimate) = 2
  /\ rowsToAnimate[1].isNew /\ ~rowsToAnimate[2].isNew

\* C24 witness of a player who left: the table showed three players and the
\* animated render shows two of them.
C24_WitnessLeft ==
  /\ rendered.animated /\ ~rendered.teamsOnly
  /\ Len(rendered.oldPlayers) = 3 /\ Len(container) = 2
  /\ Places(rendered.oldPlayers, "c|") = {1}
  /\ \A i \in 1..2 : container[i].playerId # "c|"
  /\ \A k \in 1..Len(rowsToAnimate) : rowsToAnimate[k].row.playerId # "c|"

\* the place (from 1) of an id that is in the list once
PlaceOf(list, id) == CHOOSE i \in Places(list, id) : TRUE

\* the last render animated the step from the list x, y (ranks 1, 2) to
\* the list y, x (ranks 1, 2), the previous snapshot being the old list
Swapped ==
  /\ rendered.animated
  /\ Len(rendered.oldPlayers) = 2 /\ Len(ShownNow) = 2
  /\ NameAndCountry(ShownNow[1]) = NameAndCountry(rendered.oldPlayers[2])
  /\ NameAndCountry(ShownNow[2]) = NameAndCountry(rendered.oldPlayers[1])
  /\ \A i \in 1..2 : ShownNow[i].rank = i /\ rendered.oldPlayers[i].rank = i
  /\ Shown(rendered.previousSnapshot[1].players, rendered.teamsOnly)
       = rendered.oldPlayers

\* C25: an entry of rowsToAnimate for a player at old index o and new index
\* n, o # n, carries the index delta o - n as deltaY = (o - n) * rowHeight
\* and movedUp exactly when n < o.  From x, y to y, x the entries are: y
\* with a delta of +1 row, movedUp and the badge "↑1", then x with a delta
\* of -1 row, not movedUp and the badge "↓1"; none is flagged isNew.
C25_MovedDelta ==
  rendered.animated =>
    /\ \A k \in 1..Len(rowsToAnimate) :
         ~rowsToAnimate[k].isNew =>
           LET id == rowsToAnimate[k].row.playerId
               o == PlaceOf(rendered.oldPlayers, id)
               n == PlaceOf(ShownNow, id)
           IN /\ o # n
              /\ rowsToAnimate[k].deltaY = (o - n) * rowHeight
              /\ rowsToAnimate[k].movedUp = (n < o)
    /\ Swapped =>
         /\ Len(rowsToAnimate) = 2
         /\ rowsToAnimate[1].row = container[1]
         /\ rowsToAnimate[1].deltaY = rowHeight
         /\ rowsToAnimate[1].movedUp /\ ~rowsToAnimate[1].isNew
         /\ container[1].change.text = "↑1"
         /\ rowsToAnimate[2].row = container[2]
         /\ rowsToAnimate[2].deltaY = 0 - rowHeight
         /\ ~rowsToAnimate[2].movedUp /\ ~rowsToAnimate[2].isNew
         /\ container[2].change.text = "↓1"

\* C25 witness: the table showed b, c and the animated render of c, b
\* against the snapshot b, c has made two entries.
C25_Witness ==
  /\ Swapped
  /\ container[1].playerId = "c|" /\ container[2].playerId = "b|"
  /\ Len(rowsToAnimate) = 2

\* C25 witness of a longer move: a player has come up from the third place
\* to the first, a delta of two rows.
C25_WitnessTwoRows ==
  /\ rendered.animated
  /\ \E k \in 1..Len(rowsToAnimate) :
       rowsToAnimate[k].deltaY = 2 * rowHeight /\ rowsToAnimate[k].movedUp

\* the list of the previous snapshot as the last render had to see it
ShownBefore ==
  IF rendered.previousSnapshot = Absent THEN <<>>
  ELSE Shown(rendered.previousSnapshot[1].players, rendered.teamsOnly)

\* the decimal numeral of a rank difference of the model
Numeral(n) == CASE n = 1 -> "1" [] n = 2 -> "2" [] n = 3 -> "3"

\* C26: the badge of a row is "NEW" exactly when the render had no previous
\* rank for the player; otherwise, with d = previous rank - current rank, it
\* is "↑d" (class up) for d > 0, "↓|d|" (class down) for d < 0 and "-"
\* (class same) for d = 0, whatever becomes of the row's position.
C26_BadgeFromRanks ==
  rendered.snapshot # Absent =>
    LET before == ShownBefore
    IN \A i \in 1..Len(container) :
         LET row == container[i]
             had == Places(before, row.playerId)
             d == before[PlaceOf(before, row.playerId)].rank - row.rank
         IN /\ (row.change.text = "NEW") = (had = {})
            /\ had = {} => row.change.class = "up"
            /\ had # {} /\ d > 0 =>
                 row.change = [text |-> "↑" \o Numeral(d), class |-> "up"]
            /\ had # {} /\ d < 0 =>
                 row.change = [text |-> "↓" \o Numeral(0 - d), class |-> "down"]
            /\ had # {} /\ d = 0 =>
                 row.change = [text |-> "-", class |-> "same"]

\* C26 witness: with teams only, a player stays in the first row of the
\* table while climbing from rank 2 to rank 1, and the row's badge is "↑1".
C26_Witness ==
  /\ rendered.animated /\ rendered.teamsOnly
  /\ Len(container) >= 1 /\ Len(rendered.oldPlayers) >= 1
  /\ rendered.oldPlayers = ShownBefore
  /\ NameAndCountry(rendered.oldPlayers[1]) = container[1].playerId
  /\ rendered.oldPlayers[1].rank = 2 /\ container[1].rank = 1
  /\ Tracked(container[1].playerId) = {}
  /\ container[1].change.text = "↑1"

\* C26 witness of the converse: a row moves up in the table of teams only
\* while its player keeps rank 2, and its badge is "-".
C26_WitnessMoved ==
  /\ rendered.animated /\ rendered.teamsOnly
  /\ rendered.oldPlayers = ShownBefore
  /\ \E k \in 1..Len(rowsToAnimate) :
       /\ rowsToAnimate[k].movedUp
       /\ rowsToAnimate[k].row.rank = 2
       /\ rowsToAnimate[k].row.change.text = "-"

\* C26 witness of a new player and of a fall by two ranks in one table.
C26_WitnessNew ==
  /\ rendered.snapshot # Absent /\ Len(container) = 3
  /\ container[1].change.text = "NEW"
  /\ container[3].change.text = "↓2"

\* the id is among the players of the snapshot
InSnapshot(snapshot, id) == Places(snapshot.players, id) # {}

\* C27: with teams only, a player who is in the previous and in the current
\* snapshot is never drawn as a new player: the player's row has no "NEW"
\* badge and no isNew entry in rowsToAnimate.
C27_NoSpuriousNew ==
  (/\ rendered.op = "render" /\ rendered.teamsOnly
   /\ rendered.previousSnapshot # Absent)
    => \A i \in 1..Len(container) :
         InSnapshot(rendered.previousSnapshot[1], container[i].playerId) =>
           /\ container[i].change.text # "NEW"
           /\ \A k \in Tracked(container[i].playerId) : ~rowsToAnimate[k].isNew

\* C27, where it fails: with teams only the table showed the previous
\* snapshot, in which "a" had no team; "a" has a team in the current
\* snapshot, and the row of "a" has the badge "NEW" and an isNew entry.
C27_WitnessJoinedTeam ==
  /\ rendered.op = "render" /\ rendered.teamsOnly /\ rendered.animated
  /\ rendered.previousSnapshot # Absent
  /\ rendered.oldPlayers = ShownBefore
  /\ InSnapshot(rendered.previousSnapshot[1], "a|")
  /\ \E i \in 1..Len(container) :
       /\ container[i].playerId = "a|"
       /\ container[i].change.text = "NEW"
       /\ \E k \in Tracked("a|") : rowsToAnimate[k].isNew

(***************************************************************************)
(* Stats: the general statistics.                                          *)
(***************************************************************************)
\* the ids of the players of a snapshot
IdsIn(snapshot) ==
  {NameAndCountry(snapshot.players[i]) : i \in 1..Len(snapshot.players)}

\* C28: getGeneralStats returns as newEntries the number of ids that are in
\* the last snapshot and not in the first, and as droppedOut the number of
\* ids in the first and not in the last, the id being name and country, so
\* that players of one name and different countries count as different.
C28_RosterChangeById ==
  result.op = "getGeneralStats" =>
    LET first == IdsIn(dataset[1])
        final == IdsIn(dataset[Len(dataset)])
    IN /\ result.out.newEntries = Cardinality(final \ first)
       /\ result.out.droppedOut = Cardinality(first \ final)

\* C28, where it fails: the first snapshot holds "a" of country se, the
\* last holds an "a" of no country; the ids a|se and a| differ, and
\* getGeneralStats counts no new entry and no drop-out.
C28_WitnessSameName ==
  /\ result.op = "getGeneralStats" /\ Len(dataset) = 2
  /\ IdsIn(dataset[1]) = {"a|se"} /\ IdsIn(dataset[2]) = {"a|"}
  /\ result.out.newEntries = 0 /\ result.out.droppedOut = 0

\* C28, where the names do tell the players apart: "b" has replaced "a",
\* one new entry and one drop-out.
C28_WitnessByName ==
  /\ result.op = "getGeneralStats" /\ Len(dataset) >= 2
  /\ IdsIn(dataset[1]) = {"a|"} /\ IdsIn(dataset[Len(dataset)]) = {"b|"}
  /\ result.out.newEntries = 1 /\ result.out.droppedOut = 1

\* the sum of |rank[k] - rank[k-1]| over the consecutive sightings of an id
\* in the history file
Movement(id) ==
  LET obs == Sightings(id)
      sum[k \in 1..Len(obs)] ==
        IF k = 1 THEN 0
        ELSE sum[k - 1] + (IF obs[k].player.rank >= obs[k - 1].player.rank
                             THEN obs[k].player.rank - obs[k - 1].player.rank
                             ELSE obs[k - 1].player.rank - obs[k].player.rank)
  IN sum[Len(obs)]

\* the ids with two or more sightings, each with its movement
Movements ==
  LET of == Summaries
  IN [id \in {i \in DOMAIN of : of[i].count >= 2} |-> Movement(id)]

\* C29: mostVolatile holds at most 3 players, each once and each with at
\* least two observations; a player's totalMovement is the sum of
\* |rank[k] - rank[k-1]| over the consecutive observations; the entries are
\* in order of non-increasing totalMovement; no player left out has a larger
\* totalMovement than a returned one, and players are left out only when
\* three are returned.
C29_MostVolatile ==
  result.op = "getGeneralStats" =>
    LET top == result.out.mostVolatile
        moved == Movements
        ids == {top[n].name : n \in 1..Len(top)}
    IN /\ Len(top) <= 3
       /\ Cardinality(ids) = Len(top)
       /\ ids \subseteq DOMAIN moved
       /\ \A n \in 1..Len(top) : top[n].totalMovement = moved[top[n].name]
       /\ \A m, n \in 1..Len(top) :
            m < n => top[m].totalMovement >= top[n].totalMovement
       /\ \A x \in DOMAIN moved \ ids :
            /\ Len(top) = 3
            /\ \A n \in 1..Len(top) : moved[x] <= top[n].totalMovement

\* C29 witness: four players have two or more observations, one of them
\* has gone down and up again (its movement is more than its net change),
\* and the one with the least movement is left out of the three returned.
C29_Witness ==
  /\ result.op = "getGeneralStats" /\ Len(dataset) = 3
  /\ Cardinality(DOMAIN Movements) = 4
  /\ Len(result.out.mostVolatile) = 3
  /\ \E x \in DOMAIN Movements :
       /\ \A n \in 1..3 : result.out.mostVolatile[n].name # x
       /\ \A n \in 1..3 : Movements[x] < result.out.mostVolatile[n].totalMovement
  /\ \E n \in 1..3 :
       LET s == Summaries[result.out.mostVolatile[n].name]
       IN s.firstRank = s.lastRank /\ result.out.mostVolatile[n].totalMovement > 0

\* what the call of the last step returns when it is made again, with the
\* same arguments, at the time `now`
Again(now) ==
  CASE result.op = "getWinners" ->
         getWinners(buildPlayerHistory(dataset, 0, now), result.count,
                    result.scope, result.timeDays, dataset, now)
    [] result.op = "getLosers" ->
         getLosers(buildPlayerHistory(dataset, 0, now), result.count,
                   result.scope, result.timeDays, dataset, now)
    [] result.op = "buildPlayerHistory" ->
         buildPlayerHistory(dataset, result.timeDays, now)
    [] result.op = "getGeneralStats" ->
         getGeneralStats(dataset, buildPlayerHistory(dataset, 0, now))

\* C30: getWinners, getLosers, getGeneralStats and buildPlayerHistory are
\* functions of their arguments alone: called again with the same history,
\* count, scope, timeDays and snapshots, whenever and however often, they
\* return what they returned before.
C30_SameArgumentsSameResult ==
  result.op \in {"getWinners", "getLosers", "buildPlayerHistory",
                 "getGeneralStats"} =>
    \A later \in Lags : Again(result.now + later) = result.out

\* C30, where it fails: getWinners with a time scope of one day has
\* returned a player; the same call one day later returns nobody.
C30_WitnessNextDay ==
  /\ result.op = "getWinners" /\ result.timeDays = 1
  /\ Len(dataset) = 2 /\ result.now = 2
  /\ Len(result.out) = 1
  /\ Again(result.now + 1) = <<>>

\* C30, where it holds: without a time scope the call returns the same a
\* day later.
C30_WitnessAllTime ==
  /\ result.op = "getWinners" /\ result.timeDays = 0
  /\ Len(result.out) = 2
  /\ Again(result.now + 1) = result.out

(***************************************************************************)
(* Leaderboard: the animation speed.                                       *)
(***************************************************************************)
\* getAnimationDurations with a table that has no entry for 5x
getAnimationDurations_noFive(speed) ==
  CASE speed = 2 -> [slide |-> 400, flash |-> 1000]
    [] OTHER -> [slide |-> 600, flash |-> 1500]

\* Leaderboard.getAnimationDurations for this.animationSpeed = speed, both
\* durations in ms (slide is 0.6, 0.4 and 0.15 s in the source); a speed
\* without an entry gets durations[1]
getAnimationDurations(speed) ==
  CASE speed = 1 -> [slide |-> 600, flash |-> 1500]
    [] speed = 2 -> [slide |-> 400, flash |-> 1000]
    [] speed = 5 -> [slide |-> 150, flash |-> 350]
    [] OTHER -> [slide |-> 600, flash |-> 1500]

\* C31: whenever a speed button gives setAnimationSpeed a higher speed than
\* the one in force, the slide and flash durations that
\* getAnimationDurations returns do not grow, and whenever it gives a lower
\* one they do not shrink.
C31_DurationsMonotonic ==
  [][/\ animationSpeed < animationSpeed' =>
          /\ getAnimationDurations(animationSpeed').slide
               <= getAnimationDurations(animationSpeed).slide
          /\ getAnimationDurations(animationSpeed').flash
               <= getAnimationDurations(animationSpeed).flash
     /\ animationSpeed > animationSpeed' =>
          /\ getAnimationDurations(animationSpeed').slide
               >= getAnimationDurations(animationSpeed).slide
          /\ getAnimationDurations(animationSpeed').flash
               >= getAnimationDurations(animationSpeed).flash]_vars

\* C31 witness: the 5x button has been clicked and the durations are the
\* shortest of the table.
C31_Witness ==
  /\ last.op = "speed" /\ last.arg = 5 /\ animationSpeed = 5
  /\ getAnimationDurations(animationSpeed) = [slide |-> 150, flash |-> 350]

(***************************************************************************)
(* PlayerModal and the loader: further claims.                             *)
(***************************************************************************)
\* the history map of the modal has no key `id`
UnknownToModal(id) ==
  \A n \in 1..Len(PlayerModal.playerHistory[1]) :
    PlayerModal.playerHistory[1][n].id # id

\* C32: for an id that is not a key of the history map getPlayerStats
\* returns null, and PlayerModal.show with such an id leaves
\* currentPlayerId, the modal's visibility and the browser's history stack
\* as they were.
C32_UnknownIdChangesNothing ==
  [][outcome'.op = "show" /\ UnknownToModal(outcome'.player[1]) =>
       /\ getPlayerStats(PlayerModal.playerHistory[1], outcome'.player[1])
            = Absent
       /\ PlayerModal'.currentPlayerId = PlayerModal.currentPlayerId
       /\ PlayerModal'.hidden = PlayerModal.hidden
       /\ PlayerModal'.pushed = PlayerModal.pushed]_vars

\* C32 witness: the modal shows player a and a click asks for c, who is not
\* in the history map; the modal still shows a and one entry is pushed.
C32_Witness ==
  /\ outcome.op = "show" /\ outcome.player = Str("c|")
  /\ UnknownToModal("c|")
  /\ PlayerModal.currentPlayerId = Str("a|")
  /\ ~PlayerModal.hidden /\ PlayerModal.pushed = 1

\* C32 witness of the first click: the modal is still hidden after a click
\* that asked for an unknown player.
C32_WitnessHidden ==
  /\ outcome.op = "show" /\ outcome.player = Str("b|")
  /\ UnknownToModal("b|")
  /\ PlayerModal.currentPlayerId = Absent
  /\ PlayerModal.hidden /\ PlayerModal.pushed = 0

\* the positions of the snapshots of the loaded document that have players
FullPositions ==
  {k \in 1..Len(outcome.file[1].snapshots[1]) :
     Len(outcome.file[1].snapshots[1][k].players) > 0}

\* C33: after every loadData that returns, the snapshots handed to the
\* Timeline and to the history builder are not empty, none of them has
\* zero players, and they are the snapshots of the loaded document that
\* have players, in the document's order.
C33_LoadedSnapshotsValid ==
  outcome.op = "loaded" =>
    LET given == App.data[1].snapshots[1]
        doc == outcome.file[1].snapshots[1]
    IN /\ Timeline.snapshots = given
       /\ App.playerHistory = Obj(buildPlayerHistory(given, 0, 0))
       /\ Len(given) > 0
       /\ \A i \in 1..Len(given) : Len(given[i].players) > 0
       /\ Len(given) = Cardinality(FullPositions)
       /\ \A i \in 1..Len(given) : given[i] = doc[Nth(FullPositions, i)]

\* C33 witness: a document with a snapshot without players before one with
\* players was loaded, and the Timeline got the second one only.
C33_Witness ==
  /\ outcome.op = "loaded"
  /\ Len(outcome.file[1].snapshots[1]) = 2
  /\ FullPositions = {2}
  /\ Len(Timeline.snapshots) = 1

\* C33 witness of a document that is kept whole: three snapshots in,
\* three out.
C33_WitnessWhole ==
  /\ outcome.op = "loaded"
  /\ FullPositions = {1, 2, 3}
  /\ Len(Timeline.snapshots) = 3

(***************************************************************************)
(* The extraction script (scripts/extract-history.js).  A commit is the    *)
(* number it has in the history of the leaderboard file, 1 for the oldest; *)
(* getLeaderboardCommits returns them as `git log` prints them, newest     *)
(* first.  CONFIG.MAX_SNAPSHOTS is 3360 in the script and an input here.   *)
(* Math.floor(i * step) with step = length / MAX_SNAPSHOTS is the integer  *)
(* quotient of i * length by MAX_SNAPSHOTS.                                *)
(***************************************************************************)
\* the git log of a file with n commits
getLeaderboardCommits(n) == [k \in 1..n |-> n + 1 - k]

\* sampleCommits
sampleCommits(commits, MAX_SNAPSHOTS) ==
  IF Len(commits) <= MAX_SNAPSHOTS THEN commits
  ELSE LET sampled == [i \in 1..MAX_SNAPSHOTS |->
                         commits[((i - 1) * Len(commits)) \div MAX_SNAPSHOTS + 1]]
       IN IF sampled[Len(sampled)] # commits[1]
            THEN [sampled EXCEPT ![Len(sampled)] = commits[1]]
            ELSE sampled

\* the loop of extractRegionHistory over commits.reverse(): the commits
\* whose leaderboard getLeaderboardAtCommit could read (those of `valid`)
\* give a snapshot each
extractSnapshots(commits, valid) ==
  LET reversed == [k \in 1..Len(commits) |-> commits[Len(commits) + 1 - k]]
  IN SelectSeq(reversed, LAMBDA c : c \in valid)

\* extractRegionHistory for a file with n commits; `snapshots` is Absent
\* when the script writes no file
ExtractRegionHistory ==
  \E n \in 0..MaxCommits, max \in 1..MaxSampled :
    \E valid \in SUBSET (1..n) :
      LET commits == getLeaderboardCommits(n)
          sampled == sampleCommits(commits, max)
          snapshots == extractSnapshots(sampled, valid)
      IN /\ extraction' =
              [op |-> "extract", commits |-> commits, MAX_SNAPSHOTS |-> max,
               valid |-> valid, sampled |-> sampled,
               snapshots |-> IF n = 0 \/ Len(snapshots) = 0 THEN Absent
                             ELSE Obj(snapshots)]
         /\ UNCHANGED <<Favorites, localStorage, favLast>>
         /\ UNCHANGED <<timelineVars, statsVars, appVars, boardVars>>

SpecExtract == Init /\ [][ExtractRegionHistory]_vars

\* C34: the snapshots the extraction script writes are in commit order,
\* oldest first, with every commit at most once, whether or not
\* sampleCommits had to cut the list down to MAX_SNAPSHOTS, and the most
\* recent commit (when its leaderboard can be read) is among them.
C34_WrittenOldestFirstOnce ==
  extraction.snapshots # Absent =>
    LET written == extraction.snapshots[1]
        newest == extraction.commits[1]
    IN /\ \A i, j \in 1..Len(written) : i < j => written[i] < written[j]
       /\ newest \in extraction.valid =>
            \E i \in 1..Len(written) : written[i] = newest

\* C35: whatever the order in which region switches and the completions of
\* their loads interleave, once no load is pending (and none has failed)
\* the dataset in App.data and the snapshots the Timeline shows are those
\* of App.currentRegion.
C35_SettledOnCurrentRegion ==
  (App.ready /\ loads = {} /\ ~errorShown) =>
    /\ App.data[1].region = App.currentRegion
    /\ \A k \in 1..Len(Timeline.snapshots) :
         Timeline.snapshots[k].commitHash[1] = App.currentRegion

(***************************************************************************)
(* App.renderStats: the winners and losers cards under the pros-only       *)
(* setting.  renderStats asks getWinners / getLosers for 50 entries when   *)
(* it filters; `fetched` stands for that 50, and is also 6 so that a       *)
(* leaderboard of the players p1 .. p8 and x, who trade places, has more   *)
(* winners than are asked for.                                             *)
(***************************************************************************)

\* player k of the long leaderboards on rank `rank`; the players from
\* firstPro on are in team A
LongPlayer(rank, k, firstPro) ==
  ExtractPlayer(RawPlayer(rank, "p" \o ToString(k),
                          IF k >= firstPro THEN Str("A") ELSE Absent,
                          IF k >= firstPro THEN Str("1") ELSE Absent, Absent))

\* x first and p1 .. p8 behind (up TRUE), or p1 .. p8 first and x last
LongRanking(up, firstPro) ==
  IF up
    THEN [r \in 1..(LongCount + 1) |->
            IF r = 1 THEN ExtractPlayer(RawPlayer(1, "x", Absent, Absent, Absent))
            ELSE LongPlayer(r, r - 1, firstPro)]
    ELSE [r \in 1..(LongCount + 1) |->
            IF r = LongCount + 1
              THEN ExtractPlayer(RawPlayer(r, "x", Absent, Absent, Absent))
              ELSE LongPlayer(r, r, firstPro)]

\* the two long leaderboards with a given first pro
LongSnapshots(firstPro) == {LongRanking(up, firstPro) : up \in BOOLEAN}

\* App.renderStats: the lists it puts into #winners-list and #losers-list
renderStats(playerHistory, snaps, prosOnly, winnersScope, losersScope, timeDays, now, fetched) ==
  LET isPro(p) == Truthy(p.team_tag) /\ trim(p.team_tag[1]) # ""
      winners == getWinners(playerHistory, IF prosOnly THEN fetched ELSE 5,
                            winnersScope, timeDays, snaps, now)
      losers == getLosers(playerHistory, IF prosOnly THEN fetched ELSE 5,
                          losersScope, timeDays, snaps, now)
  IN IF prosOnly
       THEN [winners |-> slice(SelectSeq(winners, isPro), 5),
             losers |-> slice(SelectSeq(losers, isPro), 5)]
       ELSE [winners |-> winners, losers |-> losers]

\* extractRegionHistory pushes the snapshot of the next commit of a long
\* leaderboard; the file has up to two
ExtractLongSnapshot ==
  \E firstPro \in {1, 3, 7} :
    \E players \in LongSnapshots(firstPro) :
      /\ result = NoResult
      /\ Len(dataset) < 2
      /\ \A k \in 1..Len(dataset) : dataset[k].players \in LongSnapshots(firstPro)
      /\ dataset' = Append(dataset, [timestamp |-> Len(dataset) + 1,
                                     players |-> players])
      /\ UNCHANGED result
      /\ UNCHANGED <<timelineVars, appVars, boardVars, sideVars>>

\* App.renderStats on the loaded file, with the scopes of the two
\* dropdowns and Leaderboard.teamsOnly
RenderStats ==
  \E prosOnly \in BOOLEAN, winnersScope \in {20, 500}, losersScope \in {20, 500},
     fetched \in {6, 50} :
    /\ result = NoResult
    /\ Len(dataset) > 0
    /\ result' = [op |-> "renderStats", count |-> 5, scope |-> winnersScope,
                  timeDays |-> 0, now |-> Len(dataset),
                  out |-> [prosOnly |-> prosOnly, losersScope |-> losersScope,
                           fetched |-> fetched,
                           lists |-> renderStats(
                                       buildPlayerHistory(dataset, 0, Len(dataset)),
                                       dataset, prosOnly, winnersScope,
                                       losersScope, 0, Len(dataset),
                                       fetched)]]
    /\ UNCHANGED <<dataset, timelineVars, appVars, boardVars, sideVars>>

NextRenderStats ==
  \/ ExtractLongSnapshot
  \/ RenderStats

SpecRenderStats == Init /\ [][NextRenderStats]_vars

\* the first five pros of a ranking
LeadingPros(ranking) == slice(SelectSeq(ranking, HasTeam), 5)

\* C36: with the pros-only filter on, the winners (losers) list renderStats
\* shows is the first 5 entries of the full change-sorted ranking of the
\* entities with a team tag, and all of them when there are fewer than 5.
C36_ProsOnlyTopFive ==
  (result.op = "renderStats" /\ result.out.prosOnly) =>
    LET history == buildPlayerHistory(dataset, 0, result.now)
        allWinners == getWinners(history, Len(history), result.scope, 0,
                                 dataset, result.now)
        allLosers == getLosers(history, Len(history), result.out.losersScope, 0,
                               dataset, result.now)
    IN /\ result.out.lists.winners = LeadingPros(allWinners)
       /\ result.out.lists.losers = LeadingPros(allLosers)

(***************************************************************************)
(* Leaderboard and Timeline: further claims.                               *)
(***************************************************************************)
\* C37: toggleTeamsOnly re-renders the current snapshot against the
\* previous snapshot it was last rendered against: every entity with a
\* row before and after the toggle has the same badge after as before.
C37_ToggleKeepsBadges ==
  [][rendered'.op = "toggleTeamsOnly" =>
       \A i \in 1..Len(container), j \in 1..Len(container') :
         container[i].playerId = container'[j].playerId =>
           container'[j].change = container[i].change]_vars

\* C38: in every state after initialisation Leaderboard.animationSpeed
\* equals Timeline.speed.
C38_SpeedsAgree ==
  Timeline.initialized => animationSpeed = Timeline.speed

(***************************************************************************)
(* Favorites (favorites.js).  The Set `favorites` is the sequence of its   *)
(* members in insertion order, which is the order [...this.favorites] and  *)
(* JSON.stringify give them in.  The item stored under STORAGE_KEY is      *)
(* null, the empty string, the JSON text of an array of ids, the JSON text *)
(* of something else, or no JSON at all.  A callback is its position in    *)
(* onChangeCallbacks; setItem may throw (quota, private mode).             *)
(***************************************************************************)
FavoriteIds == {"a|", "b|"}

\* what getItem(STORAGE_KEY) may return when the page starts
StoredItems ==
  {[kind |-> k, items |-> <<>>] : k \in {"null", "empty", "object", "invalid"}}
  \cup {[kind |-> "array", items |-> items] :
          items \in {<<>>, <<"a|">>, <<"b|", "a|">>, <<"a|", "a|">>}}

\* Set.prototype.has
has(set, id) == \E i \in 1..Len(set) : set[i] = id

\* Set.prototype.add
setAdd(set, id) == IF has(set, id) THEN set ELSE Append(set, id)

\* Set.prototype.delete
setDelete(set, id) == SelectSeq(set, LAMBDA x : x # id)

\* new Set(array)
newSet(array) ==
  LET from[k \in 0..Len(array)] ==
        IF k = 0 THEN <<>> ELSE setAdd(from[k - 1], array[k])
  IN from[Len(array)]

\* Favorites.loadFromStorage
loadFromStorage(f, stored) ==
  CASE stored.kind \in {"null", "empty"} -> f
    [] stored.kind = "array" -> [f EXCEPT !.favorites = newSet(stored.items)]
    [] stored.kind = "object" -> [f EXCEPT !.favorites = <<>>]
    [] OTHER -> [f EXCEPT !.favorites = <<>>]

\* Favorites.saveToStorage: the item after it; setItem throws when the
\* store does not take the write
saveToStorage(f, stored, canWrite) ==
  IF canWrite THEN [kind |-> "array", items |-> f.favorites] ELSE stored

\* Favorites.notifyChange: how often each callback is invoked
notifyChange(f) == [k \in 1..f.onChangeCallbacks |-> 1]

\* a method that changed the set: saveToStorage and notifyChange
changed(f, stored, canWrite, returned) ==
  [f |-> f, stored |-> saveToStorage(f, stored, canWrite),
   returned |-> returned, attempted |-> TRUE, written |-> canWrite,
   notified |-> notifyChange(f)]

\* a method that returned without doing anything
untouched(f, stored) ==
  [f |-> f, stored |-> stored, returned |-> FALSE, attempted |-> FALSE,
   written |-> FALSE, notified |-> [k \in 1..f.onChangeCallbacks |-> 0]]

\* Favorites.toggle (with the storage and the callbacks)
toggleStored(f, stored, playerId, canWrite) ==
  LET wasFavorite == has(f.favorites, playerId)
      f1 == IF wasFavorite
              THEN [f EXCEPT !.favorites = setDelete(@, playerId)]
              ELSE [f EXCEPT !.favorites = setAdd(@, playerId)]
  IN changed(f1, stored, canWrite, has(f1.favorites, playerId))

\* Favorites.add that saves and notifies whether or not the id is new
add_always(f, stored, playerId, canWrite) ==
  changed([f EXCEPT !.favorites = setAdd(@, playerId)], stored, canWrite, FALSE)

\* Favorites.add
add(f, stored, playerId, canWrite) ==
  IF ~has(f.favorites, playerId)
    THEN changed([f EXCEPT !.favorites = setAdd(@, playerId)], stored,
                 canWrite, FALSE)
    ELSE untouched(f, stored)

\* Favorites.remove
remove(f, stored, playerId, canWrite) ==
  IF has(f.favorites, playerId)
    THEN changed([f EXCEPT !.favorites = setDelete(@, playerId)], stored,
                 canWrite, FALSE)
    ELSE untouched(f, stored)

\* a Favorites method has run and left `done`
Called(op, playerId, done) ==
  /\ Favorites' = done.f
  /\ localStorage' = done.stored
  /\ favLast' = [op |-> op, playerId |-> playerId,
                 before |-> Favorites.favorites, returned |-> done.returned,
                 attempted |-> done.attempted, written |-> done.written,
                 notified |-> done.notified]
  /\ UNCHANGED extraction
  /\ UNCHANGED <<timelineVars, statsVars, appVars, boardVars>>

\* Favorites.init when the page starts, with what an earlier visit left in
\* the store
FavoritesInit ==
  \E stored \in StoredItems :
    /\ ~Favorites.loaded
    /\ Favorites' = [loadFromStorage(Favorites, stored) EXCEPT !.loaded = TRUE]
    /\ localStorage' = stored
    /\ favLast' = [NoCall EXCEPT !.op = "init"]
    /\ UNCHANGED extraction
    /\ UNCHANGED <<timelineVars, statsVars, appVars, boardVars>>

\* Favorites.onChange
OnChange ==
  /\ Favorites.loaded
  /\ Favorites.onChangeCallbacks < MaxCallbacks
  /\ Favorites' = [Favorites EXCEPT !.onChangeCallbacks = @ + 1]
  /\ favLast' = [NoCall EXCEPT !.op = "onChange"]
  /\ UNCHANGED <<extraction, localStorage>>
  /\ UNCHANGED <<timelineVars, statsVars, appVars, boardVars>>

FavoritesToggle ==
  \E playerId \in FavoriteIds, canWrite \in BOOLEAN :
    /\ Favorites.loaded
    /\ Called("toggle", playerId,
              toggleStored(Favorites, localStorage, playerId, canWrite))

FavoritesAdd ==
  \E playerId \in FavoriteIds, canWrite \in BOOLEAN :
    /\ Favorites.loaded
    /\ Called("add", playerId, add(Favorites, localStorage, playerId, canWrite))

FavoritesRemove ==
  \E playerId \in FavoriteIds, canWrite \in BOOLEAN :
    /\ Favorites.loaded
    /\ Called("remove", playerId,
              remove(Favorites, localStorage, playerId, canWrite))

NextFavorites ==
  \/ FavoritesInit
  \/ OnChange
  \/ FavoritesToggle
  \/ FavoritesAdd
  \/ FavoritesRemove

SpecFavorites == Init /\ [][NextFavorites]_vars

\* the members of a Set
Members(set) == {set[i] : i \in 1..Len(set)}

\* the last call was add of a member or remove of a non-member
NothingToDo ==
  \/ favLast.op = "add" /\ favLast.playerId \in Members(favLast.before)
  \/ favLast.op = "remove" /\ favLast.playerId \notin Members(favLast.before)

\* the set a mutating call had to leave
Expected ==
  CASE favLast.op = "add" -> Members(favLast.before) \cup {favLast.playerId}
    [] favLast.op = "remove" -> Members(favLast.before) \ {favLast.playerId}
    [] favLast.op = "toggle" ->
         IF favLast.playerId \in Members(favLast.before)
           THEN Members(favLast.before) \ {favLast.playerId}
           ELSE Members(favLast.before) \cup {favLast.playerId}

\* toggling id twice from the present state, the store taking the writes
ToggledTwice(id) ==
  LET once == toggleStored(Favorites, localStorage, id, TRUE)
  IN toggleStored(once.f, once.stored, id, TRUE)

\* C39: toggle returns the negation of the id's previous membership and
\* two toggles restore the set; add of a member and remove of a
\* non-member change nothing, write nothing and notify nobody; after a
\* mutating call whose write succeeded, what loadFromStorage reads back
\* is the in-memory set; and every registered callback is invoked exactly
\* once per call that changed the set.
C39_FavoritesAlgebra ==
  /\ favLast.op = "toggle" =>
       /\ favLast.returned = (favLast.playerId \notin Members(favLast.before))
       /\ favLast.returned = (favLast.playerId \in Members(Favorites.favorites))
  /\ \A id \in FavoriteIds :
       Members(ToggledTwice(id).f.favorites) = Members(Favorites.favorites)
  /\ favLast.op \in {"add", "remove", "toggle"} =>
       /\ Members(Favorites.favorites) = Expected
       /\ Len(favLast.notified) = Favorites.onChangeCallbacks
       /\ IF NothingToDo
            THEN /\ Favorites.favorites = favLast.before
                 /\ ~favLast.attempted
                 /\ \A k \in 1..Len(favLast.notified) : favLast.notified[k] = 0
            ELSE /\ favLast.attempted
                 /\ \A k \in 1..Len(favLast.notified) : favLast.notified[k] = 1
       /\ favLast.written =>
            Members(loadFromStorage([Favorites EXCEPT !.favorites = <<>>],
                                    localStorage).favorites)
              = Members(Favorites.favorites)

\* C39 witness: add of an id that is a favorite already, two callbacks
\* registered, none invoked, and the store still holds what an earlier
\* visit left, which is not the set.
C39_Witness ==
  /\ favLast.op = "add" /\ NothingToDo
  /\ Favorites.onChangeCallbacks = 2
  /\ favLast.notified = <<0, 0>>
  /\ localStorage.kind = "array" /\ localStorage.items = <<"a|", "a|">>

\* C39 witness of a change: a toggle removed a| from the set b|, a|, wrote
\* the store and invoked both callbacks once.
C39_WitnessToggle ==
  /\ favLast.op = "toggle" /\ favLast.playerId = "a|"
  /\ favLast.before = <<"b|", "a|">> /\ ~favLast.returned
  /\ favLast.written /\ localStorage.items = <<"b|">>
  /\ favLast.notified = <<1, 1>>

\* C39 witness of a failed write: the set changed and the callbacks ran,
\* the store did not change.
C39_WitnessWriteFailed ==
  /\ favLast.op = "remove" /\ ~NothingToDo
  /\ favLast.attempted /\ ~favLast.written
  /\ Members(localStorage.items) # Members(Favorites.favorites)
  /\ favLast.notified = <<1>>

(***************************************************************************)
(* Stats: the numbers of one player.                                       *)
(***************************************************************************)
\* the entry of the player the last getPlayerStats was about in a list
\* keyed by `name` (volatility) or `id` (winners, losers)
OfPlayer(list) ==
  {n \in 1..Len(list) :
     (IF "totalMovement" \in DOMAIN list[n] THEN list[n].name ELSE list[n].id)
       = result.out.playerId}

\* C40: for every entity with two or more observations the totalMovement
\* of getGeneralStats' volatility is at least |firstRank - lastRank|, the
\* net change getWinners / getLosers and getPlayerStats.totalChange report;
\* and getPlayerStats returns bestRank <= currentRank <= worstRank and a
\* biggestJump with |change| <= totalMovement.
C40_MovementBounds ==
  (result.op = "getPlayerStats" /\ result.out.stats # Absent) =>
    LET s == result.out.stats[1]
        history == buildPlayerHistory(dataset, 0, result.now)
        volatility == volatilityOf(history)
        winners == getWinners(history, Len(history), 500, 0, dataset, result.now)
        losers == getLosers(history, Len(history), 500, 0, dataset, result.now)
    IN /\ s.bestRank <= s.currentRank /\ s.currentRank <= s.worstRank
       /\ Len(s.ranks) >= 2 => Cardinality(OfPlayer(volatility)) = 1
       /\ \A v \in OfPlayer(volatility) :
            /\ volatility[v].totalMovement >= abs(s.totalChange)
            /\ volatility[v].totalMovement >= abs(s.biggestJump.change)
            /\ \A w \in OfPlayer(winners) :
                 /\ winners[w].change = s.totalChange
                 /\ volatility[v].totalMovement >= winners[w].change
            /\ \A l \in OfPlayer(losers) :
                 /\ losers[l].change = 0 - s.totalChange
                 /\ volatility[v].totalMovement >= losers[l].change

\* C40 witness: a player seen on ranks 1, 3 and 2: the current rank lies
\* strictly between the best and the worst, the total movement of 3
\* exceeds the net change of 1, and the biggest jump is 2.
C40_Witness ==
  /\ result.op = "getPlayerStats" /\ result.out.stats # Absent
  /\ result.out.stats[1].ranks = <<1, 3, 2>>
  /\ result.out.stats[1].bestRank = 1 /\ result.out.stats[1].worstRank = 3
  /\ result.out.stats[1].totalChange = 0 - 1
  /\ result.out.stats[1].biggestJump = [change |-> 0 - 2, from |-> 1, to |-> 3]
  /\ \E v \in OfPlayer(volatilityOf(buildPlayerHistory(dataset, 0, result.now))) :
       volatilityOf(buildPlayerHistory(dataset, 0, result.now))[v].totalMovement = 3

\* C40 witness of a player who only climbed: the total movement is the net
\* change and the player is among the winners.
C40_WitnessClimber ==
  /\ result.op = "getPlayerStats" /\ result.out.stats # Absent
  /\ result.out.stats[1].ranks = <<4, 2, 1>>
  /\ result.out.stats[1].totalChange = 3
  /\ result.out.stats[1].avgRank = 2

=============================================================================
